---- MODULE Spec2Model ----
(***************************************************************************)
(* The diagram model store of Dreamer (useElementsStore): elements,        *)
(* connectors, selection, clipboard and the linear undo/redo history; and  *)
(* the pointer controller of the canvas (Canvas, SelectionHandles,         *)
(* AnchorPoints) with the tool and viewport of useCanvasStore.             *)
(*                                                                         *)
(* Numbers are integers.  Ids stand for the strings uuidv4() returns: the  *)
(* code only compares them for equality, so the model draws the least id   *)
(* that no retained part of the state uses.  historyIndex keeps the        *)
(* code's 0-based value (-1 for an empty history); history[i + 1] is the   *)
(* code's history[i].                                                      *)
(***************************************************************************)
EXTENDS Integers, Sequences, FiniteSets, TLC

VARIABLES
    elements,       \* CanvasElement[]
    connectors,     \* ConnectorElement[]
    selectedIds,    \* string[]
    history,        \* HistoryEntry[]
    historyIndex,   \* number
    clipboard,      \* CanvasElement[]
    activeTool,     \* useCanvasStore: ToolType
    viewport,       \* useCanvasStore: ViewportState
    canvas,         \* the useState values of the Canvas component
    resizing,       \* the window listeners of SelectionHandles: the closure of a
                    \*           resize in progress, or Undefined
    event,          \* observer: the pointer handler that ran last, "none" after a
                    \*           direct call of a store operation
    lastOp,         \* observer: the operation that ran last, its id argument,
                    \*           whether its pushHistory() cut off a redo tail, and
                    \*           the id it returned (NoId for '' and for no value)
    pushRun,        \* observer: consecutive addShape calls up to now
    undoRun,        \* observer: consecutive undo calls since the tail of a full history
    phase,          \* observer: progress through pushHistory(); undo(); redo()
    preUndo,        \* observer: (elements, connectors) just before that undo()
    steps           \* observer: operations run so far

store == <<elements, connectors, selectedIds, history, historyIndex, clipboard>>
pointer == <<activeTool, viewport, canvas, resizing>>
observers == <<lastOp, pushRun, undoRun, phase, preUndo, steps, event>>
vars == <<elements, connectors, selectedIds, history, historyIndex, clipboard,
          activeTool, viewport, canvas, resizing, event,
          lastOp, pushRun, undoRun, phase, preUndo, steps>>

----------------------------------------------------------------------------
(* Bounds of the model *)

MaxSteps == 5
MaxHistElements == 60
MaxRun == 61

(* Program constants *)

MAX_HISTORY == 50

NoId == 0

\* An optional value: Undefined (or null) when there is none, Given(v) otherwise
Undefined == <<>>
Given(v) == <<v>>

positions == <<"top", "right", "bottom", "left">>
AnchorPosition == {"top", "right", "bottom", "left"}
Delta == {200}
NoModel == [elements |-> <<>>, connectors |-> <<>>, none |-> TRUE]

----------------------------------------------------------------------------
(* Sequence helpers: Array.prototype.includes / find; filter is SelectSeq *)

includes(s, v) == \E i \in 1..Len(s) : s[i] = v

IdsOf(s) == {s[i].id : i \in 1..Len(s)}

find(s, id) == s[CHOOSE i \in 1..Len(s) : s[i].id = id /\ \A j \in 1..(i - 1) : s[j].id # id]

----------------------------------------------------------------------------
(* JSON.parse(JSON.stringify(v)): a fresh structure rebuilt field by field *)

ClonePoints(ps) == [i \in 1..Len(ps) |-> [x |-> ps[i].x, y |-> ps[i].y]]

CloneElement(e) ==
    [id |-> e.id, type |-> e.type, shapeType |-> e.shapeType,
     x |-> e.x, y |-> e.y, width |-> e.width, height |-> e.height,
     points |-> ClonePoints(e.points)]

CloneConnector(c) ==
    [id |-> c.id, type |-> c.type, sourceId |-> c.sourceId, targetId |-> c.targetId,
     sourceAnchor |-> c.sourceAnchor, targetAnchor |-> c.targetAnchor]

CloneElements(els) == [i \in 1..Len(els) |-> CloneElement(els[i])]
CloneConnectors(cs) == [i \in 1..Len(cs) |-> CloneConnector(cs[i])]

----------------------------------------------------------------------------
(* uuidv4(): ids that nothing retained after the operation uses.  Every    *)
(* operation that draws ids ends with pushHistory(), which drops the redo  *)
(* tail, so the tail's ids do not count as used.                           *)

RECURSIVE HistoryIds(_)
HistoryIds(n) ==
    IF n = 0 THEN {}
    ELSE IdsOf(history[n].elements) \cup IdsOf(history[n].connectors) \cup HistoryIds(n - 1)

UsedIds ==
    IdsOf(elements) \cup IdsOf(connectors) \cup IdsOf(clipboard)
    \cup {selectedIds[i] : i \in 1..Len(selectedIds)}
    \cup HistoryIds(historyIndex + 1)

RECURSIVE FreshFrom(_, _, _)
FreshFrom(k, n, used) ==
    IF k = 0 THEN <<>>
    ELSE IF n \in used THEN FreshFrom(k, n + 1, used)
         ELSE <<n>> \o FreshFrom(k - 1, n + 1, used)

uuidv4s(k) == FreshFrom(k, 1, UsedIds)
uuidv4 == uuidv4s(1)[1]

----------------------------------------------------------------------------
(* Observers: they record which operation ran, they decide nothing *)

Min(a, b) == IF a < b THEN a ELSE b

AtFullTail == Len(history) = MAX_HISTORY /\ historyIndex = MAX_HISTORY - 1

\* The run counters and the push/undo/redo phase are kept by the history
\* specification only (phase = "off" elsewhere).
Returns(op, arg, pushes, ret) ==
    /\ lastOp' = [op |-> op, id |-> arg,
                  cut |-> pushes /\ historyIndex + 1 < Len(history),
                  ret |-> ret]
    /\ IF phase = "off"
       THEN UNCHANGED <<pushRun, undoRun, phase, preUndo>>
       ELSE /\ pushRun' = IF op = "addShape" THEN Min(pushRun + 1, MaxRun) ELSE 0
            /\ undoRun' = IF op # "undo" THEN 0
                          ELSE IF undoRun > 0 THEN Min(undoRun + 1, MaxRun)
                          ELSE IF AtFullTail THEN 1 ELSE 0
            /\ phase' = IF pushes THEN "pushed"
                        ELSE IF op = "undo" /\ phase = "pushed" THEN "undone"
                        ELSE IF op = "redo" /\ phase = "undone" THEN "redone"
                        ELSE "none"
            /\ preUndo' = IF op = "undo" /\ phase = "pushed"
                            THEN [elements |-> elements, connectors |-> connectors,
                                  none |-> FALSE]
                          ELSE IF op = "redo" /\ phase = "undone" THEN preUndo
                          ELSE NoModel

Observe(op, arg, pushes) == Returns(op, arg, pushes, NoId)

----------------------------------------------------------------------------
(* History *)

Snapshot(els, conns) ==
    [elements |-> CloneElements(els), connectors |-> CloneConnectors(conns)]

\* pushHistory() no longer dropping the oldest entry at the cap
pushHistory_noEvict(els, conns) ==
    LET newHistory == Append(SubSeq(history, 1, historyIndex + 1), Snapshot(els, conns))
    IN  [history |-> newHistory, historyIndex |-> Len(newHistory) - 1]

\* pushHistory() appending to the whole list instead of the slice up to historyIndex
pushHistory_keepTail(els, conns) ==
    LET pushed == Append(history, Snapshot(els, conns))
        newHistory == IF Len(pushed) > MAX_HISTORY THEN Tail(pushed) ELSE pushed
    IN  [history |-> newHistory, historyIndex |-> Len(newHistory) - 1]

\* The state update of pushHistory(), for the model (els, conns) it snapshots
pushHistory(els, conns) ==
    LET pushed == Append(SubSeq(history, 1, historyIndex + 1), Snapshot(els, conns))
        newHistory == IF Len(pushed) > MAX_HISTORY THEN Tail(pushed) ELSE pushed
    IN  [history |-> newHistory, historyIndex |-> Len(newHistory) - 1]

PushHistory ==
    /\ history' = pushHistory(elements, connectors).history
    /\ historyIndex' = pushHistory(elements, connectors).historyIndex
    /\ UNCHANGED <<elements, connectors, selectedIds, clipboard>>
    /\ Observe("pushHistory", NoId, TRUE)

\* undo() clearing the selection before its boundary test
undo_clearsFirst ==
    /\ selectedIds' = <<>>
    /\ IF historyIndex <= 0
         THEN UNCHANGED <<elements, connectors, history, historyIndex, clipboard>>
         ELSE /\ elements' = CloneElements(history[historyIndex].elements)
              /\ connectors' = CloneConnectors(history[historyIndex].connectors)
              /\ historyIndex' = historyIndex - 1
              /\ UNCHANGED <<history, clipboard>>
    /\ Observe("undo", NoId, FALSE)

\* undo() leaving the selection as it was
undo_keepsSelection ==
    /\ IF historyIndex <= 0
         THEN UNCHANGED store
         ELSE /\ elements' = CloneElements(history[historyIndex].elements)
              /\ connectors' = CloneConnectors(history[historyIndex].connectors)
              /\ historyIndex' = historyIndex - 1
              /\ UNCHANGED <<selectedIds, history, clipboard>>
    /\ Observe("undo", NoId, FALSE)

undo ==
    /\ IF historyIndex <= 0
         THEN UNCHANGED store
         ELSE LET newIndex == historyIndex - 1
                  entry == history[newIndex + 1]
              IN  /\ elements' = CloneElements(entry.elements)
                  /\ connectors' = CloneConnectors(entry.connectors)
                  /\ historyIndex' = newIndex
                  /\ selectedIds' = <<>>
                  /\ UNCHANGED <<history, clipboard>>
    /\ Observe("undo", NoId, FALSE)

\* redo() reading the entry at the old index
redo_staleEntry ==
    /\ IF historyIndex >= Len(history) - 1
         THEN UNCHANGED store
         ELSE LET newIndex == historyIndex + 1
                  entry == history[IF historyIndex < 0 THEN 1 ELSE historyIndex + 1]
              IN  /\ elements' = CloneElements(entry.elements)
                  /\ connectors' = CloneConnectors(entry.connectors)
                  /\ historyIndex' = newIndex
                  /\ selectedIds' = <<>>
                  /\ UNCHANGED <<history, clipboard>>
    /\ Observe("redo", NoId, FALSE)

redo ==
    /\ IF historyIndex >= Len(history) - 1
         THEN UNCHANGED store
         ELSE LET newIndex == historyIndex + 1
                  entry == history[newIndex + 1]
              IN  /\ elements' = CloneElements(entry.elements)
                  /\ connectors' = CloneConnectors(entry.connectors)
                  /\ historyIndex' = newIndex
                  /\ selectedIds' = <<>>
                  /\ UNCHANGED <<history, clipboard>>
    /\ Observe("redo", NoId, FALSE)

----------------------------------------------------------------------------
(* Element CRUD *)

Pushed(els, conns) ==
    /\ history' = pushHistory(els, conns).history
    /\ historyIndex' = pushHistory(els, conns).historyIndex

\* addShape() leaving the history to its caller
addShape_noPush(shapeType, x, y) ==
    LET id == uuidv4
        shape == [id |-> id, type |-> "shape", shapeType |-> shapeType,
                  x |-> x, y |-> y, width |-> 120, height |-> 80, points |-> <<>>]
    IN  /\ elements' = Append(elements, shape)
        /\ selectedIds' = <<id>>
        /\ UNCHANGED <<connectors, history, historyIndex, clipboard>>
        /\ Returns("addShape", NoId, FALSE, id)

addShape(shapeType, x, y) ==
    LET id == uuidv4
        shape == [id |-> id, type |-> "shape", shapeType |-> shapeType,
                  x |-> x, y |-> y, width |-> 120, height |-> 80, points |-> <<>>]
    IN  /\ elements' = Append(elements, shape)
        /\ selectedIds' = <<id>>
        /\ UNCHANGED <<connectors, clipboard>>
        /\ Pushed(elements', connectors')
        /\ Returns("addShape", NoId, TRUE, id)

addText(x, y) ==
    LET id == uuidv4
        text == [id |-> id, type |-> "text", shapeType |-> "none",
                 x |-> x, y |-> y, width |-> 150, height |-> 40, points |-> <<>>]
    IN  /\ elements' = Append(elements, text)
        /\ selectedIds' = <<id>>
        /\ UNCHANGED <<connectors, clipboard>>
        /\ Pushed(elements', connectors')
        /\ Returns("addText", NoId, TRUE, id)

\* Math.min(...xs), Math.max(...xs) over the x or y coordinates of the points
MinOf(S) == CHOOSE v \in S : \A w \in S : v <= w
MaxOf(S) == CHOOSE v \in S : \A w \in S : v >= w

\* addDrawing() storing the points as they were given
addDrawing_absolutePoints(points) ==
    IF Len(points) < 2
    THEN UNCHANGED store /\ Observe("addDrawing", NoId, FALSE)
    ELSE LET id == uuidv4
             xs == {points[i].x : i \in 1..Len(points)}
             ys == {points[i].y : i \in 1..Len(points)}
             minX == MinOf(xs)
             minY == MinOf(ys)
             maxX == MaxOf(xs)
             maxY == MaxOf(ys)
             relativePoints == [i \in 1..Len(points) |->
                                   [x |-> points[i].x - minX, y |-> points[i].y - minY]]
             drawing == [id |-> id, type |-> "drawing", shapeType |-> "none",
                         x |-> minX, y |-> minY,
                         width |-> MaxOf({maxX - minX, 1}),
                         height |-> MaxOf({maxY - minY, 1}),
                         points |-> points]
         IN  /\ elements' = Append(elements, drawing)
             /\ selectedIds' = <<id>>
             /\ UNCHANGED <<connectors, clipboard>>
             /\ Pushed(elements', connectors')
             /\ Returns("addDrawing", NoId, TRUE, id)

addDrawing(points) ==
    IF Len(points) < 2
    THEN UNCHANGED store /\ Observe("addDrawing", NoId, FALSE)
    ELSE LET id == uuidv4
             xs == {points[i].x : i \in 1..Len(points)}
             ys == {points[i].y : i \in 1..Len(points)}
             minX == MinOf(xs)
             minY == MinOf(ys)
             maxX == MaxOf(xs)
             maxY == MaxOf(ys)
             relativePoints == [i \in 1..Len(points) |->
                                   [x |-> points[i].x - minX, y |-> points[i].y - minY]]
             drawing == [id |-> id, type |-> "drawing", shapeType |-> "none",
                         x |-> minX, y |-> minY,
                         width |-> MaxOf({maxX - minX, 1}),
                         height |-> MaxOf({maxY - minY, 1}),
                         points |-> relativePoints]
         IN  /\ elements' = Append(elements, drawing)
             /\ selectedIds' = <<id>>
             /\ UNCHANGED <<connectors, clipboard>>
             /\ Pushed(elements', connectors')
             /\ Returns("addDrawing", NoId, TRUE, id)

----------------------------------------------------------------------------
(* Anchors.  Anchor points are edge midpoints, x + width / 2: the model    *)
(* keeps them in half units (every coordinate doubled) so that they stay   *)
(* integers, and compares Math.hypot distances by their squares.           *)

getAnchorPoints(element) ==
    [top    |-> [x |-> 2 * element.x + element.width, y |-> 2 * element.y],
     right  |-> [x |-> 2 * element.x + 2 * element.width, y |-> 2 * element.y + element.height],
     bottom |-> [x |-> 2 * element.x + element.width, y |-> 2 * element.y + 2 * element.height],
     left   |-> [x |-> 2 * element.x, y |-> 2 * element.y + element.height]]

hypot2(dx, dy) == dx * dx + dy * dy

Infinity == -1
LessThan(d, m) == m = Infinity \/ d < m
\* the comparison of calculateBestAnchors turned into <=
LessOrEqual(d, m) == m = Infinity \/ d <= m

\* The loop of calculateBestAnchors from its k-th iteration on (k = 0..15:
\* sPos = positions[k \div 4], tPos = positions[k % 4])
RECURSIVE BestFrom(_, _, _, _, _)
BestFrom(k, sourceAnchors, targetAnchors, minDistance, best) ==
    IF k = 16 THEN best
    ELSE LET sPos == positions[(k \div 4) + 1]
             tPos == positions[(k % 4) + 1]
             sPoint == sourceAnchors[sPos]
             tPoint == targetAnchors[tPos]
             distance == hypot2(tPoint.x - sPoint.x, tPoint.y - sPoint.y)
         IN  IF LessThan(distance, minDistance)
             THEN BestFrom(k + 1, sourceAnchors, targetAnchors, distance,
                           [sourceAnchor |-> sPos, targetAnchor |-> tPos])
             ELSE BestFrom(k + 1, sourceAnchors, targetAnchors, minDistance, best)

\* calculateBestAnchors with <= for <: the last minimum wins
RECURSIVE BestFromLast(_, _, _, _, _)
BestFromLast(k, sourceAnchors, targetAnchors, minDistance, best) ==
    IF k = 16 THEN best
    ELSE LET sPos == positions[(k \div 4) + 1]
             tPos == positions[(k % 4) + 1]
             sPoint == sourceAnchors[sPos]
             tPoint == targetAnchors[tPos]
             distance == hypot2(tPoint.x - sPoint.x, tPoint.y - sPoint.y)
         IN  IF LessOrEqual(distance, minDistance)
             THEN BestFromLast(k + 1, sourceAnchors, targetAnchors, distance,
                               [sourceAnchor |-> sPos, targetAnchor |-> tPos])
             ELSE BestFromLast(k + 1, sourceAnchors, targetAnchors, minDistance, best)

calculateBestAnchors_lastMin(source, target) ==
    BestFromLast(0, getAnchorPoints(source), getAnchorPoints(target), Infinity,
                 [sourceAnchor |-> "right", targetAnchor |-> "left"])

calculateBestAnchors(source, target) ==
    BestFrom(0, getAnchorPoints(source), getAnchorPoints(target), Infinity,
             [sourceAnchor |-> "right", targetAnchor |-> "left"])

----------------------------------------------------------------------------
(* Connectors *)

Connector(id, sourceId, sourceAnchor, targetId, targetAnchor) ==
    [id |-> id, type |-> "connector", sourceId |-> sourceId, targetId |-> targetId,
     sourceAnchor |-> sourceAnchor, targetAnchor |-> targetAnchor]

addConnector(sourceId, targetId) ==
    IF ~(sourceId \in IdsOf(elements) /\ targetId \in IdsOf(elements))
    THEN UNCHANGED store /\ Observe("addConnector", NoId, FALSE)
    ELSE LET source == find(elements, sourceId)
             target == find(elements, targetId)
             best == calculateBestAnchors(source, target)
             id == uuidv4
         IN  /\ connectors' = Append(connectors,
                    Connector(id, sourceId, best.sourceAnchor, targetId, best.targetAnchor))
             /\ selectedIds' = <<id>>
             /\ UNCHANGED <<elements, clipboard>>
             /\ Pushed(elements', connectors')
             /\ Returns("addConnector", NoId, TRUE, id)

\* addConnectorWithAnchors() resolving the target only
addConnectorWithAnchors_targetOnly(sourceId, sourceAnchor, targetId, targetAnchor) ==
    IF ~(targetId \in IdsOf(elements))
    THEN UNCHANGED store /\ Observe("addConnectorWithAnchors", NoId, FALSE)
    ELSE LET id == uuidv4
         IN  /\ connectors' = Append(connectors,
                    Connector(id, sourceId, sourceAnchor, targetId, targetAnchor))
             /\ selectedIds' = <<id>>
             /\ UNCHANGED <<elements, clipboard>>
             /\ Pushed(elements', connectors')
             /\ Returns("addConnectorWithAnchors", NoId, TRUE, id)

addConnectorWithAnchors(sourceId, sourceAnchor, targetId, targetAnchor) ==
    IF ~(sourceId \in IdsOf(elements) /\ targetId \in IdsOf(elements))
    THEN UNCHANGED store /\ Observe("addConnectorWithAnchors", NoId, FALSE)
    ELSE LET id == uuidv4
         IN  /\ connectors' = Append(connectors,
                    Connector(id, sourceId, sourceAnchor, targetId, targetAnchor))
             /\ selectedIds' = <<id>>
             /\ UNCHANGED <<elements, clipboard>>
             /\ Pushed(elements', connectors')
             /\ Returns("addConnectorWithAnchors", NoId, TRUE, id)

\* { ...el, ...updates }: the fields of updates replace those of the object
Spread(object, updates) ==
    [f \in DOMAIN object \cup DOMAIN updates |->
        IF f \in DOMAIN updates THEN updates[f] ELSE object[f]]

updateElement(id, updates) ==
    /\ elements' = [i \in 1..Len(elements) |->
          IF elements[i].id = id THEN Spread(elements[i], updates) ELSE elements[i]]
    /\ UNCHANGED <<connectors, selectedIds, history, historyIndex, clipboard>>
    /\ Observe("updateElement", id, FALSE)

updateConnector(id, updates) ==
    /\ connectors' = [i \in 1..Len(connectors) |->
          IF connectors[i].id = id THEN Spread(connectors[i], updates) ELSE connectors[i]]
    /\ UNCHANGED <<elements, selectedIds, history, historyIndex, clipboard>>
    /\ Observe("updateConnector", id, FALSE)

updateConnectorAnchors ==
    /\ connectors' = [i \in 1..Len(connectors) |->
          LET connector == connectors[i]
          IN  IF ~(connector.sourceId \in IdsOf(elements)
                   /\ connector.targetId \in IdsOf(elements))
              THEN connector
              ELSE LET best == calculateBestAnchors(find(elements, connector.sourceId),
                                                    find(elements, connector.targetId))
                   IN  [connector EXCEPT !.sourceAnchor = best.sourceAnchor,
                                         !.targetAnchor = best.targetAnchor]]
    /\ UNCHANGED <<elements, selectedIds, history, historyIndex, clipboard>>
    /\ Observe("updateConnectorAnchors", NoId, FALSE)

----------------------------------------------------------------------------
(* Selection *)

setSelectedIds(ids) ==
    /\ selectedIds' = ids
    /\ UNCHANGED <<elements, connectors, history, historyIndex, clipboard>>
    /\ Observe("setSelectedIds", NoId, FALSE)

clearSelection ==
    /\ selectedIds' = <<>>
    /\ UNCHANGED <<elements, connectors, history, historyIndex, clipboard>>
    /\ Observe("clearSelection", NoId, FALSE)

toggleSelection(id) ==
    /\ selectedIds' = IF includes(selectedIds, id)
                        THEN SelectSeq(selectedIds, LAMBDA i : i # id)
                        ELSE Append(selectedIds, id)
    /\ UNCHANGED <<elements, connectors, history, historyIndex, clipboard>>
    /\ Observe("toggleSelection", NoId, FALSE)

----------------------------------------------------------------------------
(* Delete, move, resize *)

\* deleteSelected() cascading from the source end of a connector only
deleteSelected_sourceOnly ==
    LET connectorIdsToDelete ==
            IdsOf(SelectSeq(connectors, LAMBDA c : includes(selectedIds, c.sourceId)))
    IN  /\ elements' = SelectSeq(elements, LAMBDA el : ~includes(selectedIds, el.id))
        /\ connectors' = SelectSeq(connectors,
               LAMBDA c : ~includes(selectedIds, c.id) /\ c.id \notin connectorIdsToDelete)
        /\ selectedIds' = <<>>
        /\ UNCHANGED clipboard
        /\ Pushed(elements', connectors')
        /\ Observe("deleteSelected", NoId, TRUE)

\* deleteSelected() returning at once when nothing is selected
deleteSelected_returnsOnEmpty ==
    IF selectedIds = <<>>
    THEN UNCHANGED store /\ Observe("deleteSelected", NoId, FALSE)
    ELSE LET connectorIdsToDelete ==
                 IdsOf(SelectSeq(connectors,
                     LAMBDA c : includes(selectedIds, c.sourceId) \/ includes(selectedIds, c.targetId)))
         IN  /\ elements' = SelectSeq(elements, LAMBDA el : ~includes(selectedIds, el.id))
             /\ connectors' = SelectSeq(connectors,
                    LAMBDA c : ~includes(selectedIds, c.id) /\ c.id \notin connectorIdsToDelete)
             /\ selectedIds' = <<>>
             /\ UNCHANGED clipboard
             /\ Pushed(elements', connectors')
             /\ Observe("deleteSelected", NoId, TRUE)

deleteSelected ==
    LET connectorIdsToDelete ==
            IdsOf(SelectSeq(connectors,
                LAMBDA c : includes(selectedIds, c.sourceId) \/ includes(selectedIds, c.targetId)))
    IN  /\ elements' = SelectSeq(elements, LAMBDA el : ~includes(selectedIds, el.id))
        /\ connectors' = SelectSeq(connectors,
               LAMBDA c : ~includes(selectedIds, c.id) /\ c.id \notin connectorIdsToDelete)
        /\ selectedIds' = <<>>
        /\ UNCHANGED clipboard
        /\ Pushed(elements', connectors')
        /\ Observe("deleteSelected", NoId, TRUE)

\* deleteElement() without the cascade to the connectors of the element
deleteElement_noCascade(id) ==
    /\ elements' = SelectSeq(elements, LAMBDA el : el.id # id)
    /\ connectors' = SelectSeq(connectors, LAMBDA c : c.id # id)
    /\ selectedIds' = SelectSeq(selectedIds, LAMBDA i : i # id)
    /\ UNCHANGED clipboard
    /\ Pushed(elements', connectors')
    /\ Observe("deleteElement", id, TRUE)

deleteElement(id) ==
    /\ elements' = SelectSeq(elements, LAMBDA el : el.id # id)
    /\ connectors' = SelectSeq(connectors,
           LAMBDA c : c.id # id /\ c.sourceId # id /\ c.targetId # id)
    /\ selectedIds' = SelectSeq(selectedIds, LAMBDA i : i # id)
    /\ UNCHANGED clipboard
    /\ Pushed(elements', connectors')
    /\ Observe("deleteElement", id, TRUE)

\* moveElements() followed by a refresh of the connector anchors
moveElements_refreshAnchors(ids, dx, dy) ==
    /\ elements' = [i \in 1..Len(elements) |->
          IF includes(ids, elements[i].id)
          THEN [elements[i] EXCEPT !.x = @ + dx, !.y = @ + dy]
          ELSE elements[i]]
    /\ connectors' = [i \in 1..Len(connectors) |->
          LET connector == connectors[i]
          IN  IF ~(connector.sourceId \in IdsOf(elements)
                   /\ connector.targetId \in IdsOf(elements))
              THEN connector
              ELSE LET best == calculateBestAnchors(find(elements', connector.sourceId),
                                                    find(elements', connector.targetId))
                   IN  [connector EXCEPT !.sourceAnchor = best.sourceAnchor,
                                         !.targetAnchor = best.targetAnchor]]
    /\ UNCHANGED <<selectedIds, history, historyIndex, clipboard>>
    /\ Observe("moveElements", NoId, FALSE)

\* moveElements() pushing a history entry on every call
moveElements_pushesHistory(ids, dx, dy) ==
    /\ elements' = [i \in 1..Len(elements) |->
          IF includes(ids, elements[i].id)
          THEN [elements[i] EXCEPT !.x = @ + dx, !.y = @ + dy]
          ELSE elements[i]]
    /\ UNCHANGED <<connectors, selectedIds, clipboard>>
    /\ Pushed(elements', connectors')
    /\ Observe("moveElements", NoId, TRUE)

moveElements(ids, dx, dy) ==
    /\ elements' = [i \in 1..Len(elements) |->
          IF includes(ids, elements[i].id)
          THEN [elements[i] EXCEPT !.x = @ + dx, !.y = @ + dy]
          ELSE elements[i]]
    /\ UNCHANGED <<connectors, selectedIds, history, historyIndex, clipboard>>
    /\ Observe("moveElements", NoId, FALSE)

resizeElement(id, width, height, x, y) ==
    /\ elements' = [i \in 1..Len(elements) |->
          IF elements[i].id = id
          THEN [elements[i] EXCEPT !.width = MaxOf({20, width}),
                                   !.height = MaxOf({20, height}),
                                   !.x = IF x # Undefined THEN x[1] ELSE @,
                                   !.y = IF y # Undefined THEN y[1] ELSE @]
          ELSE elements[i]]
    /\ UNCHANGED <<connectors, selectedIds, history, historyIndex, clipboard>>
    /\ Observe("resizeElement", id, FALSE)

----------------------------------------------------------------------------
(* Clipboard *)

Copied == CloneElements(SelectSeq(elements, LAMBDA el : includes(selectedIds, el.id)))

copy ==
    /\ clipboard' = Copied
    /\ UNCHANGED <<elements, connectors, selectedIds, history, historyIndex>>
    /\ Observe("copy", NoId, FALSE)

\* paste() keeping the ids of the clipboard elements
paste_sameIds(offsetX, offsetY) ==
    IF Len(clipboard) = 0
    THEN UNCHANGED store /\ Observe("paste", NoId, FALSE)
    ELSE LET ids == IdsOf(clipboard)
             newElements == [i \in 1..Len(clipboard) |->
                 [clipboard[i] EXCEPT !.x = @ + offsetX, !.y = @ + offsetY]]
         IN  /\ elements' = elements \o newElements
             /\ selectedIds' = [i \in 1..Len(clipboard) |-> clipboard[i].id]
             /\ UNCHANGED <<connectors, clipboard>>
             /\ Pushed(elements', connectors')
             /\ Observe("paste", NoId, TRUE)

paste(offsetX, offsetY) ==
    IF Len(clipboard) = 0
    THEN UNCHANGED store /\ Observe("paste", NoId, FALSE)
    ELSE LET ids == uuidv4s(Len(clipboard))
             newElements == [i \in 1..Len(clipboard) |->
                 [clipboard[i] EXCEPT !.id = ids[i], !.x = @ + offsetX, !.y = @ + offsetY]]
         IN  /\ elements' = elements \o newElements
             /\ selectedIds' = ids
             /\ UNCHANGED <<connectors, clipboard>>
             /\ Pushed(elements', connectors')
             /\ Observe("paste", NoId, TRUE)

\* cut(): copy() then deleteSelected()
cut ==
    LET connectorIdsToDelete ==
            IdsOf(SelectSeq(connectors,
                LAMBDA c : includes(selectedIds, c.sourceId) \/ includes(selectedIds, c.targetId)))
    IN  /\ clipboard' = Copied
        /\ elements' = SelectSeq(elements, LAMBDA el : ~includes(selectedIds, el.id))
        /\ connectors' = SelectSeq(connectors,
               LAMBDA c : ~includes(selectedIds, c.id) /\ c.id \notin connectorIdsToDelete)
        /\ selectedIds' = <<>>
        /\ Pushed(elements', connectors')
        /\ Observe("cut", NoId, TRUE)

----------------------------------------------------------------------------
(* Reset and load *)

reset ==
    /\ elements' = <<>>
    /\ connectors' = <<>>
    /\ selectedIds' = <<>>
    /\ history' = <<>>
    /\ historyIndex' = -1
    /\ UNCHANGED clipboard
    /\ Observe("reset", NoId, FALSE)

\* loadDiagram() leaving historyIndex where it was
loadDiagram_keepsIndex(els, conns) ==
    /\ elements' = els
    /\ connectors' = conns
    /\ selectedIds' = <<>>
    /\ history' = <<>>
    /\ UNCHANGED <<historyIndex, clipboard>>
    /\ Observe("loadDiagram", NoId, FALSE)

\* loadDiagram() starting the history with the loaded model
loadDiagram_seedsHistory(els, conns) ==
    /\ elements' = els
    /\ connectors' = conns
    /\ selectedIds' = <<>>
    /\ history' = <<Snapshot(els, conns)>>
    /\ historyIndex' = 0
    /\ UNCHANGED clipboard
    /\ Observe("loadDiagram", NoId, FALSE)

loadDiagram(els, conns) ==
    /\ elements' = els
    /\ connectors' = conns
    /\ selectedIds' = <<>>
    /\ history' = <<>>
    /\ historyIndex' = -1
    /\ UNCHANGED clipboard
    /\ Observe("loadDiagram", NoId, FALSE)

----------------------------------------------------------------------------
(* useCanvasStore: viewport and tool.  panX, panY and zoom are fractions,   *)
(* kept exact and in lowest terms ([n |-> 9, d |-> 10] is 0.9): the zoom   *)
(* is a product of steps of 0.9 and 1.1 between 0.1 and 5, and the pan is  *)
(* a quotient by it.  The rounding of floating-point numbers is not        *)
(* modelled.                                                               *)

RECURSIVE GCD(_, _)
GCD(a, b) == IF b = 0 THEN a ELSE GCD(b, a % b)

Abs(v) == IF v < 0 THEN -v ELSE v

\* the fraction n / d, for d > 0, in lowest terms
Fraction(n, d) ==
    LET g == GCD(Abs(n), d)
    IN  [n |-> n \div g, d |-> d \div g]

Whole(i) == [n |-> i, d |-> 1]

Plus(a, b) == Fraction(a.n * b.d + b.n * a.d, a.d * b.d)
Minus(a, b) == Fraction(a.n * b.d - b.n * a.d, a.d * b.d)
\* the factors are cancelled crosswise before they are multiplied
Times(a, b) ==
    LET g == GCD(Abs(a.n), b.d)
        h == GCD(Abs(b.n), a.d)
    IN  Fraction((a.n \div g) * (b.n \div h), (a.d \div h) * (b.d \div g))
\* a / b for b other than 0
DividedBy(a, b) ==
    Times(a, IF b.n < 0 THEN [n |-> -b.d, d |-> -b.n] ELSE [n |-> b.d, d |-> b.n])
Less(a, b) == a.n * b.d < b.n * a.d
\* Math.floor
Floor(a) == a.n \div a.d

\* Math.max(a, b) and Math.min(a, b)
MathMax(a, b) == IF Less(a, b) THEN b ELSE a
MathMin(a, b) == IF Less(b, a) THEN b ELSE a

INITIAL_VIEWPORT == [panX |-> Whole(0), panY |-> Whole(0), zoom |-> Whole(1)]

MIN_ZOOM == [n |-> 1, d |-> 10]
MAX_ZOOM == Whole(5)

ToolType == {"select", "rectangle", "roundedRectangle", "ellipse", "text",
             "connector", "freehand"}

pan(dx, dy) ==
    viewport' = [viewport EXCEPT !.panX = Plus(@, Whole(dx)), !.panY = Plus(@, Whole(dy))]

\* zoomTo() without the clamp of the requested zoom
zoomTo_unclamped(newZoom, centerX, centerY) ==
    LET canvasX == DividedBy(Minus(Whole(centerX), viewport.panX), viewport.zoom)
        canvasY == DividedBy(Minus(Whole(centerY), viewport.panY), viewport.zoom)
        newPanX == Minus(Whole(centerX), Times(canvasX, newZoom))
        newPanY == Minus(Whole(centerY), Times(canvasY, newZoom))
    IN  viewport' = [panX |-> newPanX, panY |-> newPanY, zoom |-> newZoom]

\* zoomTo() taking the new pan from the requested zoom instead of the clamped one
zoomTo_panOfRequested(newZoom, centerX, centerY) ==
    LET clampedZoom == MathMax(MIN_ZOOM, MathMin(MAX_ZOOM, newZoom))
        canvasX == DividedBy(Minus(Whole(centerX), viewport.panX), viewport.zoom)
        canvasY == DividedBy(Minus(Whole(centerY), viewport.panY), viewport.zoom)
        newPanX == Minus(Whole(centerX), Times(canvasX, newZoom))
        newPanY == Minus(Whole(centerY), Times(canvasY, newZoom))
    IN  viewport' = [panX |-> newPanX, panY |-> newPanY, zoom |-> clampedZoom]

zoomTo(newZoom, centerX, centerY) ==
    LET clampedZoom == MathMax(MIN_ZOOM, MathMin(MAX_ZOOM, newZoom))
        canvasX == DividedBy(Minus(Whole(centerX), viewport.panX), viewport.zoom)
        canvasY == DividedBy(Minus(Whole(centerY), viewport.panY), viewport.zoom)
        newPanX == Minus(Whole(centerX), Times(canvasX, clampedZoom))
        newPanY == Minus(Whole(centerY), Times(canvasY, clampedZoom))
    IN  viewport' = [panX |-> newPanX, panY |-> newPanY, zoom |-> clampedZoom]

resetViewport == viewport' = INITIAL_VIEWPORT

setActiveTool(tool) == activeTool' = tool

\* what screenToCanvas returns when get() gives the viewport state
ScreenToCanvasOf(state, screenX, screenY) ==
    [x |-> DividedBy(Minus(Whole(screenX), state.panX), state.zoom),
     y |-> DividedBy(Minus(Whole(screenY), state.panY), state.zoom)]

screenToCanvas(screenX, screenY) == ScreenToCanvasOf(viewport, screenX, screenY)

\* The elements and the geometry of the model are on whole numbers: a point of
\* the canvas is taken at the whole position at or below it, which is the point
\* itself at zoom 1 with a whole pan.
Pixel(point) == [x |-> Floor(point.x), y |-> Floor(point.y)]

----------------------------------------------------------------------------
(* utils/geometry.  A distance is compared with a threshold by the squares *)
(* of both.                                                                *)

rectsIntersect(a, b) ==
    /\ a.x < b.x + b.width
    /\ a.x + a.width > b.x
    /\ a.y < b.y + b.height
    /\ a.y + a.height > b.y

pointInRect(point, rect) ==
    /\ point.x >= rect.x
    /\ point.x <= rect.x + rect.width
    /\ point.y >= rect.y
    /\ point.y <= rect.y + rect.height

\* (dx * dx) / (rx * rx) + (dy * dy) / (ry * ry) <= 1 with both sides multiplied
\* by (2 * rx)^2 * (2 * ry)^2: rx = width / 2, dx = point.x - (x + width / 2).
\* A point further than rx or ry from the centre is outside at once.
pointInEllipse(point, rect) ==
    LET dx2 == 2 * point.x - (2 * rect.x + rect.width)
        dy2 == 2 * point.y - (2 * rect.y + rect.height)
        rx2 == rect.width
        ry2 == rect.height
    IN  /\ dx2 * dx2 <= rx2 * rx2
        /\ dy2 * dy2 <= ry2 * ry2
        /\ dx2 * dx2 * ry2 * ry2 + dy2 * dy2 * rx2 * rx2 <= rx2 * rx2 * ry2 * ry2

\* normalizeRect() keeping the corner where the drag started as the origin
normalizeRect_keepsOrigin(rect) ==
    [x |-> rect.x, y |-> rect.y, width |-> Abs(rect.width), height |-> Abs(rect.height)]

normalizeRect(rect) ==
    [x |-> IF rect.width < 0 THEN rect.x + rect.width ELSE rect.x,
     y |-> IF rect.height < 0 THEN rect.y + rect.height ELSE rect.y,
     width |-> Abs(rect.width),
     height |-> Abs(rect.height)]

\* t = clamp(num / lengthSq, 0, 1): the nearest point is lineStart for t = 0 and
\* lineEnd for t = 1, and in between it is the foot of the perpendicular, at the
\* distance |cross| / sqrt(lengthSq) (cross * cross is only computed where it is
\* below 2^31, beyond that it exceeds the right-hand side)
pointNearLine(point, lineStart, lineEnd, threshold) ==
    LET dx == lineEnd.x - lineStart.x
        dy == lineEnd.y - lineStart.y
        lengthSq == dx * dx + dy * dy
        num == (point.x - lineStart.x) * dx + (point.y - lineStart.y) * dy
        cross == (point.x - lineStart.x) * dy - (point.y - lineStart.y) * dx
    IN  IF lengthSq = 0 \/ num <= 0
        THEN hypot2(lineStart.x - point.x, lineStart.y - point.y) <= threshold * threshold
        ELSE IF num >= lengthSq
        THEN hypot2(lineEnd.x - point.x, lineEnd.y - point.y) <= threshold * threshold
        ELSE Abs(cross) <= 46340 /\ cross * cross <= threshold * threshold * lengthSq

pointNearPath(point, pathPoints, threshold) ==
    /\ Len(pathPoints) >= 2
    /\ \E i \in 1..(Len(pathPoints) - 1) :
          pointNearLine(point, pathPoints[i], pathPoints[i + 1], threshold)

----------------------------------------------------------------------------
(* Canvas: the pointer handlers.  A mouse event e carries its position     *)
(* relative to the canvas container (x, y), its button and its modifier    *)
(* keys (metaKey stands for metaKey || ctrlKey).  connectorPreview and     *)
(* isSpaceOrCmdHeld only feed the rendering and are left out.              *)

InitialCanvas ==
    [isPanning |-> FALSE, isDragging |-> FALSE, dragStart |-> Undefined,
     selectionBox |-> Undefined, isDrawingConnector |-> FALSE,
     connectorSource |-> Undefined, isDrawing |-> FALSE, drawingPoints |-> <<>>,
     hoveredElementId |-> NoId]

Rect(element) ==
    [x |-> element.x, y |-> element.y, width |-> element.width, height |-> element.height]

Doubled(point) == [x |-> 2 * point.x, y |-> 2 * point.y]

\* the test of one element in hitTest
ElementHit(element, canvasPoint) ==
    IF element.type = "drawing"
    THEN pointNearPath(canvasPoint,
             [i \in 1..Len(element.points) |->
                 [x |-> element.points[i].x + element.x, y |-> element.points[i].y + element.y]],
             Floor(DividedBy(Whole(8), viewport.zoom)))
    ELSE IF element.type = "shape" /\ element.shapeType = "ellipse"
    THEN pointInEllipse(canvasPoint, Rect(element))
    ELSE pointInRect(canvasPoint, Rect(element))

\* the test of one connector in hitTest, in the half units of the anchor points
ConnectorHit(connector, canvasPoint) ==
    /\ connector.sourceId \in IdsOf(elements)
    /\ connector.targetId \in IdsOf(elements)
    /\ pointNearLine(Doubled(canvasPoint),
           getAnchorPoints(find(elements, connector.sourceId))[connector.sourceAnchor],
           getAnchorPoints(find(elements, connector.targetId))[connector.targetAnchor],
           2 * Floor(DividedBy(Whole(8), viewport.zoom)))

\* the topmost element at the point, else the first connector near it, else null
hitTest(canvasPoint) ==
    LET overEls == {i \in 1..Len(elements) : ElementHit(elements[i], canvasPoint)}
        overConns == {i \in 1..Len(connectors) : ConnectorHit(connectors[i], canvasPoint)}
    IN  IF overEls # {} THEN elements[MaxOf(overEls)].id
        ELSE IF overConns # {} THEN connectors[MinOf(overConns)].id
        ELSE NoId

\* the loop over Object.entries(anchors) from its k-th entry on
RECURSIVE ClosestFrom(_, _, _, _, _)
ClosestFrom(k, anchors, point, minDist, closestAnchor) ==
    IF k > 4 THEN closestAnchor
    ELSE LET pos == positions[k]
             dist == hypot2(point.x - anchors[pos].x, point.y - anchors[pos].y)
         IN  IF LessThan(dist, minDist)
             THEN ClosestFrom(k + 1, anchors, point, dist, pos)
             ELSE ClosestFrom(k + 1, anchors, point, minDist, closestAnchor)

closestAnchor(element, canvasPoint, default) ==
    ClosestFrom(1, getAnchorPoints(element), Doubled(canvasPoint), Infinity, default)

\* a handler that calls no operation of the elements store
NoStoreCall(handler) == UNCHANGED store /\ Observe(handler, NoId, FALSE)

StopDrawingConnector ==
    [canvas EXCEPT !.isDrawingConnector = FALSE, !.connectorSource = Undefined]

\* AnchorPoints are rendered for a shape or text that is hovered or selected,
\* and for all of them while a connector is drawn
ShowsAnchors(elementId) ==
    /\ elementId \in IdsOf(elements)
    /\ find(elements, elementId).type # "drawing"
    /\ \/ canvas.hoveredElementId = elementId
       \/ includes(selectedIds, elementId)
       \/ canvas.isDrawingConnector

handleAnchorMouseDown(elementId, anchor) ==
    /\ ShowsAnchors(elementId)
    /\ canvas' = [canvas EXCEPT !.isDrawingConnector = TRUE,
                                !.connectorSource = Given([elementId |-> elementId,
                                                           anchor |-> anchor])]
    /\ NoStoreCall("handleAnchorMouseDown")
    /\ UNCHANGED <<activeTool, viewport, resizing>>
    /\ event' = "handleAnchorMouseDown"

\* handleAnchorMouseUp() also connecting an element to itself
handleAnchorMouseUp_selfConnector(elementId, anchor) ==
    /\ ShowsAnchors(elementId)
    /\ IF /\ canvas.isDrawingConnector
          /\ canvas.connectorSource # Undefined
       THEN addConnectorWithAnchors(canvas.connectorSource[1].elementId,
                                    canvas.connectorSource[1].anchor, elementId, anchor)
       ELSE NoStoreCall("handleAnchorMouseUp")
    /\ canvas' = StopDrawingConnector
    /\ UNCHANGED <<activeTool, viewport, resizing>>
    /\ event' = "handleAnchorMouseUp"

handleAnchorMouseUp(elementId, anchor) ==
    /\ ShowsAnchors(elementId)
    /\ IF /\ canvas.isDrawingConnector
          /\ canvas.connectorSource # Undefined
          /\ canvas.connectorSource[1].elementId # elementId
       THEN addConnectorWithAnchors(canvas.connectorSource[1].elementId,
                                    canvas.connectorSource[1].anchor, elementId, anchor)
       ELSE NoStoreCall("handleAnchorMouseUp")
    /\ canvas' = StopDrawingConnector
    /\ UNCHANGED <<activeTool, viewport, resizing>>
    /\ event' = "handleAnchorMouseUp"

handleMouseDown(e) ==
    LET canvasPoint == Pixel(screenToCanvas(e.x, e.y))
        hitId == hitTest(canvasPoint)
    IN  /\ event' = "handleMouseDown"
        /\ UNCHANGED <<viewport, resizing>>
        /\ IF e.button = 1 \/ (e.button = 0 /\ e.metaKey)
           THEN \* panning
                /\ canvas' = [canvas EXCEPT !.isPanning = TRUE,
                                            !.dragStart = Given([x |-> e.x, y |-> e.y])]
                /\ NoStoreCall("handleMouseDown")
                /\ UNCHANGED activeTool
           ELSE IF e.button = 2
           THEN NoStoreCall("handleMouseDown") /\ UNCHANGED <<canvas, activeTool>>
           ELSE IF canvas.isDrawingConnector
           THEN /\ canvas' = StopDrawingConnector
                /\ NoStoreCall("handleMouseDown")
                /\ UNCHANGED activeTool
           ELSE IF activeTool = "select"
           THEN IF hitId # NoId
                THEN /\ IF e.shiftKey THEN toggleSelection(hitId)
                        ELSE IF ~includes(selectedIds, hitId) THEN setSelectedIds(<<hitId>>)
                        ELSE NoStoreCall("handleMouseDown")
                     /\ canvas' = [canvas EXCEPT !.isDragging = TRUE,
                                                 !.dragStart = Given(canvasPoint)]
                     /\ UNCHANGED activeTool
                ELSE /\ IF ~e.shiftKey THEN clearSelection
                        ELSE NoStoreCall("handleMouseDown")
                     /\ canvas' = [canvas EXCEPT
                            !.dragStart = Given(canvasPoint),
                            !.selectionBox = Given([x |-> canvasPoint.x, y |-> canvasPoint.y,
                                                    width |-> 0, height |-> 0])]
                     /\ UNCHANGED activeTool
           ELSE IF activeTool = "freehand"
           THEN /\ canvas' = [canvas EXCEPT !.isDrawing = TRUE,
                                            !.drawingPoints = <<canvasPoint>>]
                /\ clearSelection
                /\ UNCHANGED activeTool
           ELSE IF activeTool = "connector"
           THEN /\ IF hitId # NoId /\ hitId \in IdsOf(elements)
                   THEN canvas' = [canvas EXCEPT
                            !.isDrawingConnector = TRUE,
                            !.connectorSource = Given(
                                [elementId |-> hitId,
                                 anchor |-> closestAnchor(find(elements, hitId),
                                                          canvasPoint, "right")])]
                   ELSE UNCHANGED canvas
                /\ NoStoreCall("handleMouseDown")
                /\ UNCHANGED activeTool
           ELSE \* creating a shape or a text
                /\ IF activeTool = "text"
                   THEN addText(canvasPoint.x - 75, canvasPoint.y - 20)
                   ELSE addShape(activeTool, canvasPoint.x - 60, canvasPoint.y - 40)
                /\ setActiveTool("select")
                /\ UNCHANGED canvas

handleMouseMove(e) ==
    LET canvasPoint == Pixel(screenToCanvas(e.x, e.y))
        hitId == hitTest(canvasPoint)
        hovered == IF ~canvas.isDragging /\ ~canvas.isPanning
                      /\ canvas.selectionBox = Undefined
                   THEN [canvas EXCEPT !.hoveredElementId =
                            IF hitId # NoId /\ hitId \in IdsOf(elements) THEN hitId ELSE NoId]
                   ELSE canvas
    IN  /\ event' = "handleMouseMove"
        /\ UNCHANGED <<activeTool, resizing>>
        /\ IF canvas.isPanning /\ canvas.dragStart # Undefined
           THEN /\ pan(e.x - canvas.dragStart[1].x, e.y - canvas.dragStart[1].y)
                /\ canvas' = [hovered EXCEPT !.dragStart = Given([x |-> e.x, y |-> e.y])]
                /\ NoStoreCall("handleMouseMove")
           ELSE IF canvas.isDragging /\ canvas.dragStart # Undefined /\ Len(selectedIds) > 0
           THEN /\ moveElements(selectedIds, canvasPoint.x - canvas.dragStart[1].x,
                                canvasPoint.y - canvas.dragStart[1].y)
                /\ canvas' = [hovered EXCEPT !.dragStart = Given(canvasPoint)]
                /\ UNCHANGED viewport
           ELSE IF canvas.selectionBox # Undefined /\ canvas.dragStart # Undefined
           THEN /\ canvas' = [hovered EXCEPT !.selectionBox = Given(
                        [x |-> canvas.dragStart[1].x, y |-> canvas.dragStart[1].y,
                         width |-> canvasPoint.x - canvas.dragStart[1].x,
                         height |-> canvasPoint.y - canvas.dragStart[1].y])]
                /\ NoStoreCall("handleMouseMove")
                /\ UNCHANGED viewport
           ELSE /\ canvas' = IF canvas.isDrawing
                             THEN [hovered EXCEPT !.drawingPoints = Append(@, canvasPoint)]
                             ELSE hovered
                /\ NoStoreCall("handleMouseMove")
                /\ UNCHANGED viewport

\* onMouseLeave calls handleMouseUp with an event without a position: e.inside
\* is FALSE, the canvas point is (NaN, NaN) and hitTest finds nothing there
\* handleMouseUp() ending a drag with a push only if the model changed since the last one
handleMouseUp_pushesIfChanged(e) ==
    LET canvasPoint == Pixel(screenToCanvas(e.x, e.y))
        hitId == IF e.inside THEN hitTest(canvasPoint) ELSE NoId
        left == IF e.inside THEN canvas ELSE [canvas EXCEPT !.hoveredElementId = NoId]
    IN  /\ event' = IF e.inside THEN "handleMouseUp" ELSE "onMouseLeave"
        /\ UNCHANGED <<viewport, resizing>>
        /\ IF canvas.isDrawing
           THEN /\ IF Len(canvas.drawingPoints) > 1 THEN addDrawing(canvas.drawingPoints)
                   ELSE NoStoreCall("handleMouseUp")
                /\ canvas' = [left EXCEPT !.isDrawing = FALSE, !.drawingPoints = <<>>]
                /\ UNCHANGED activeTool
           ELSE IF canvas.isPanning
           THEN /\ canvas' = [left EXCEPT !.isPanning = FALSE, !.dragStart = Undefined]
                /\ NoStoreCall("handleMouseUp")
                /\ UNCHANGED activeTool
           ELSE IF canvas.isDragging
           THEN /\ canvas' = [left EXCEPT !.isDragging = FALSE, !.dragStart = Undefined]
                /\ IF history[historyIndex + 1] = Snapshot(elements, connectors)
                   THEN NoStoreCall("handleMouseUp")
                   ELSE PushHistory
                /\ UNCHANGED activeTool
           ELSE IF canvas.selectionBox # Undefined
           THEN LET normalized == normalizeRect(canvas.selectionBox[1])
                    newIds == [i \in 1..Len(SelectSeq(elements,
                                   LAMBDA el : rectsIntersect(normalized, Rect(el)))) |->
                               SelectSeq(elements,
                                   LAMBDA el : rectsIntersect(normalized, Rect(el)))[i].id]
                IN  /\ setSelectedIds(
                           IF e.shiftKey
                           THEN selectedIds \o SelectSeq(newIds,
                                                  LAMBDA id : ~includes(selectedIds, id))
                           ELSE newIds)
                    /\ canvas' = [left EXCEPT !.selectionBox = Undefined,
                                              !.dragStart = Undefined]
                    /\ UNCHANGED activeTool
           ELSE IF canvas.isDrawingConnector /\ canvas.connectorSource # Undefined
           THEN /\ IF /\ hitId # NoId
                      /\ hitId # canvas.connectorSource[1].elementId
                      /\ hitId \in IdsOf(elements)
                   THEN addConnectorWithAnchors(
                            canvas.connectorSource[1].elementId,
                            canvas.connectorSource[1].anchor,
                            hitId,
                            closestAnchor(find(elements, hitId), canvasPoint, "left"))
                   ELSE NoStoreCall("handleMouseUp")
                /\ canvas' = [left EXCEPT !.isDrawingConnector = FALSE,
                                          !.connectorSource = Undefined]
                /\ IF activeTool = "connector" THEN setActiveTool("select")
                   ELSE UNCHANGED activeTool
           ELSE /\ canvas' = left
                /\ NoStoreCall("handleMouseUp")
                /\ UNCHANGED activeTool

\* handleMouseUp() accepting the source element as the target of the connector
handleMouseUp_selfConnector(e) ==
    LET canvasPoint == Pixel(screenToCanvas(e.x, e.y))
        hitId == IF e.inside THEN hitTest(canvasPoint) ELSE NoId
        left == IF e.inside THEN canvas ELSE [canvas EXCEPT !.hoveredElementId = NoId]
    IN  /\ event' = IF e.inside THEN "handleMouseUp" ELSE "onMouseLeave"
        /\ UNCHANGED <<viewport, resizing>>
        /\ IF canvas.isDrawing
           THEN /\ IF Len(canvas.drawingPoints) > 1 THEN addDrawing(canvas.drawingPoints)
                   ELSE NoStoreCall("handleMouseUp")
                /\ canvas' = [left EXCEPT !.isDrawing = FALSE, !.drawingPoints = <<>>]
                /\ UNCHANGED activeTool
           ELSE IF canvas.isPanning
           THEN /\ canvas' = [left EXCEPT !.isPanning = FALSE, !.dragStart = Undefined]
                /\ NoStoreCall("handleMouseUp")
                /\ UNCHANGED activeTool
           ELSE IF canvas.isDragging
           THEN /\ canvas' = [left EXCEPT !.isDragging = FALSE, !.dragStart = Undefined]
                /\ PushHistory
                /\ UNCHANGED activeTool
           ELSE IF canvas.selectionBox # Undefined
           THEN LET normalized == normalizeRect(canvas.selectionBox[1])
                    newIds == [i \in 1..Len(SelectSeq(elements,
                                   LAMBDA el : rectsIntersect(normalized, Rect(el)))) |->
                               SelectSeq(elements,
                                   LAMBDA el : rectsIntersect(normalized, Rect(el)))[i].id]
                IN  /\ setSelectedIds(
                           IF e.shiftKey
                           THEN selectedIds \o SelectSeq(newIds,
                                                  LAMBDA id : ~includes(selectedIds, id))
                           ELSE newIds)
                    /\ canvas' = [left EXCEPT !.selectionBox = Undefined,
                                              !.dragStart = Undefined]
                    /\ UNCHANGED activeTool
           ELSE IF canvas.isDrawingConnector /\ canvas.connectorSource # Undefined
           THEN /\ IF /\ hitId # NoId
                      /\ hitId \in IdsOf(elements)
                   THEN addConnectorWithAnchors(
                            canvas.connectorSource[1].elementId,
                            canvas.connectorSource[1].anchor,
                            hitId,
                            closestAnchor(find(elements, hitId), canvasPoint, "left"))
                   ELSE NoStoreCall("handleMouseUp")
                /\ canvas' = [left EXCEPT !.isDrawingConnector = FALSE,
                                          !.connectorSource = Undefined]
                /\ IF activeTool = "connector" THEN setActiveTool("select")
                   ELSE UNCHANGED activeTool
           ELSE /\ canvas' = left
                /\ NoStoreCall("handleMouseUp")
                /\ UNCHANGED activeTool

handleMouseUp(e) ==
    LET canvasPoint == Pixel(screenToCanvas(e.x, e.y))
        hitId == IF e.inside THEN hitTest(canvasPoint) ELSE NoId
        left == IF e.inside THEN canvas ELSE [canvas EXCEPT !.hoveredElementId = NoId]
    IN  /\ event' = IF e.inside THEN "handleMouseUp" ELSE "onMouseLeave"
        /\ UNCHANGED <<viewport, resizing>>
        /\ IF canvas.isDrawing
           THEN /\ IF Len(canvas.drawingPoints) > 1 THEN addDrawing(canvas.drawingPoints)
                   ELSE NoStoreCall("handleMouseUp")
                /\ canvas' = [left EXCEPT !.isDrawing = FALSE, !.drawingPoints = <<>>]
                /\ UNCHANGED activeTool
           ELSE IF canvas.isPanning
           THEN /\ canvas' = [left EXCEPT !.isPanning = FALSE, !.dragStart = Undefined]
                /\ NoStoreCall("handleMouseUp")
                /\ UNCHANGED activeTool
           ELSE IF canvas.isDragging
           THEN /\ canvas' = [left EXCEPT !.isDragging = FALSE, !.dragStart = Undefined]
                /\ PushHistory
                /\ UNCHANGED activeTool
           ELSE IF canvas.selectionBox # Undefined
           THEN LET normalized == normalizeRect(canvas.selectionBox[1])
                    newIds == [i \in 1..Len(SelectSeq(elements,
                                   LAMBDA el : rectsIntersect(normalized, Rect(el)))) |->
                               SelectSeq(elements,
                                   LAMBDA el : rectsIntersect(normalized, Rect(el)))[i].id]
                IN  /\ setSelectedIds(
                           IF e.shiftKey
                           THEN selectedIds \o SelectSeq(newIds,
                                                  LAMBDA id : ~includes(selectedIds, id))
                           ELSE newIds)
                    /\ canvas' = [left EXCEPT !.selectionBox = Undefined,
                                              !.dragStart = Undefined]
                    /\ UNCHANGED activeTool
           ELSE IF canvas.isDrawingConnector /\ canvas.connectorSource # Undefined
           THEN /\ IF /\ hitId # NoId
                      /\ hitId # canvas.connectorSource[1].elementId
                      /\ hitId \in IdsOf(elements)
                   THEN addConnectorWithAnchors(
                            canvas.connectorSource[1].elementId,
                            canvas.connectorSource[1].anchor,
                            hitId,
                            closestAnchor(find(elements, hitId), canvasPoint, "left"))
                   ELSE NoStoreCall("handleMouseUp")
                /\ canvas' = [left EXCEPT !.isDrawingConnector = FALSE,
                                          !.connectorSource = Undefined]
                /\ IF activeTool = "connector" THEN setActiveTool("select")
                   ELSE UNCHANGED activeTool
           ELSE /\ canvas' = left
                /\ NoStoreCall("handleMouseUp")
                /\ UNCHANGED activeTool

----------------------------------------------------------------------------
(* SelectionHandles: the eight resize handles of the one selected element. *)
(* handleMouseDown on a handle stops the event and attaches the two window *)
(* listeners, which keep what the closure captured at that moment.         *)

\* the canvas position of a handle (x + width / 2 rounded down to a pixel)
HandlePoint(element, position) ==
    [x |-> IF position \in {"nw", "sw", "w"} THEN element.x
           ELSE IF position \in {"n", "s"} THEN element.x + element.width \div 2
           ELSE element.x + element.width,
     y |-> IF position \in {"nw", "n", "ne"} THEN element.y
           ELSE IF position \in {"e", "w"} THEN element.y + element.height \div 2
           ELSE element.y + element.height]

\* the press lands on the handle: the mouse is where the handle is on the screen
handlesMouseDown(position) ==
    /\ Len(selectedIds) = 1
    /\ selectedIds[1] \in IdsOf(elements)
    /\ resizing = Undefined
    /\ LET element == find(elements, selectedIds[1])
           at == HandlePoint(element, position)
       IN  resizing' = Given([elementId |-> element.id, position |-> position,
                              initialX |-> element.x, initialY |-> element.y,
                              initialWidth |-> element.width,
                              initialHeight |-> element.height,
                              startMouseX |-> Floor(Plus(Times(Whole(at.x), viewport.zoom), viewport.panX)),
                              startMouseY |-> Floor(Plus(Times(Whole(at.y), viewport.zoom), viewport.panY)),
                              zoom |-> viewport.zoom])
    /\ NoStoreCall("handlesMouseDown")
    /\ UNCHANGED <<activeTool, viewport, canvas>>
    /\ event' = "handlesMouseDown"

\* the mouse-move listener clamping the size without putting the origin back
handlesMouseMove_originFollows(moveEvent) ==
    /\ resizing # Undefined
    /\ LET r == resizing[1]
           position == r.position
           dx == Floor(DividedBy(Whole(moveEvent.x - r.startMouseX), r.zoom))
           dy == Floor(DividedBy(Whole(moveEvent.y - r.startMouseY), r.zoom))
           movedX == IF position \in {"nw", "sw", "w"} THEN r.initialX + dx ELSE r.initialX
           movedY == IF position \in {"nw", "n", "ne"} THEN r.initialY + dy ELSE r.initialY
           sizedWidth == IF position \in {"nw", "sw", "w"} THEN r.initialWidth - dx
                         ELSE IF position \in {"ne", "e", "se"} THEN r.initialWidth + dx
                         ELSE r.initialWidth
           sizedHeight == IF position \in {"nw", "n", "ne"} THEN r.initialHeight - dy
                          ELSE IF position \in {"se", "s", "sw"} THEN r.initialHeight + dy
                          ELSE r.initialHeight
           minSize == 20
           newX == movedX
           newWidth == IF sizedWidth < minSize THEN minSize ELSE sizedWidth
           newY == movedY
           newHeight == IF sizedHeight < minSize THEN minSize ELSE sizedHeight
       IN  resizeElement(r.elementId, newWidth, newHeight, Given(newX), Given(newY))
    /\ UNCHANGED pointer
    /\ event' = "handlesMouseMove"

\* the mouse-move listener starting from the geometry the element has now
handlesMouseMove_incremental(moveEvent) ==
    /\ resizing # Undefined
    /\ LET now == find(elements, resizing[1].elementId)
           r == [resizing[1] EXCEPT !.initialX = now.x, !.initialY = now.y,
                                    !.initialWidth = now.width,
                                    !.initialHeight = now.height]
           position == r.position
           dx == Floor(DividedBy(Whole(moveEvent.x - r.startMouseX), r.zoom))
           dy == Floor(DividedBy(Whole(moveEvent.y - r.startMouseY), r.zoom))
           movedX == IF position \in {"nw", "sw", "w"} THEN r.initialX + dx ELSE r.initialX
           movedY == IF position \in {"nw", "n", "ne"} THEN r.initialY + dy ELSE r.initialY
           sizedWidth == IF position \in {"nw", "sw", "w"} THEN r.initialWidth - dx
                         ELSE IF position \in {"ne", "e", "se"} THEN r.initialWidth + dx
                         ELSE r.initialWidth
           sizedHeight == IF position \in {"nw", "n", "ne"} THEN r.initialHeight - dy
                          ELSE IF position \in {"se", "s", "sw"} THEN r.initialHeight + dy
                          ELSE r.initialHeight
           minSize == 20
           newX == IF sizedWidth < minSize /\ position \in {"nw", "sw", "w"}
                   THEN r.initialX + r.initialWidth - minSize ELSE movedX
           newWidth == IF sizedWidth < minSize THEN minSize ELSE sizedWidth
           newY == IF sizedHeight < minSize /\ position \in {"nw", "n", "ne"}
                   THEN r.initialY + r.initialHeight - minSize ELSE movedY
           newHeight == IF sizedHeight < minSize THEN minSize ELSE sizedHeight
       IN  resizeElement(r.elementId, newWidth, newHeight, Given(newX), Given(newY))
    /\ UNCHANGED pointer
    /\ event' = "handlesMouseMove"

handlesMouseMove(moveEvent) ==
    /\ resizing # Undefined
    /\ LET r == resizing[1]
           position == r.position
           dx == Floor(DividedBy(Whole(moveEvent.x - r.startMouseX), r.zoom))
           dy == Floor(DividedBy(Whole(moveEvent.y - r.startMouseY), r.zoom))
           movedX == IF position \in {"nw", "sw", "w"} THEN r.initialX + dx ELSE r.initialX
           movedY == IF position \in {"nw", "n", "ne"} THEN r.initialY + dy ELSE r.initialY
           sizedWidth == IF position \in {"nw", "sw", "w"} THEN r.initialWidth - dx
                         ELSE IF position \in {"ne", "e", "se"} THEN r.initialWidth + dx
                         ELSE r.initialWidth
           sizedHeight == IF position \in {"nw", "n", "ne"} THEN r.initialHeight - dy
                          ELSE IF position \in {"se", "s", "sw"} THEN r.initialHeight + dy
                          ELSE r.initialHeight
           minSize == 20
           newX == IF sizedWidth < minSize /\ position \in {"nw", "sw", "w"}
                   THEN r.initialX + r.initialWidth - minSize ELSE movedX
           newWidth == IF sizedWidth < minSize THEN minSize ELSE sizedWidth
           newY == IF sizedHeight < minSize /\ position \in {"nw", "n", "ne"}
                   THEN r.initialY + r.initialHeight - minSize ELSE movedY
           newHeight == IF sizedHeight < minSize THEN minSize ELSE sizedHeight
       IN  resizeElement(r.elementId, newWidth, newHeight, Given(newX), Given(newY))
    /\ UNCHANGED pointer
    /\ event' = "handlesMouseMove"

handlesMouseUp ==
    /\ resizing # Undefined
    /\ PushHistory
    /\ resizing' = Undefined
    /\ UNCHANGED <<activeTool, viewport, canvas>>
    /\ event' = "handlesMouseUp"

----------------------------------------------------------------------------
(* The history of a growing diagram: shapes are added one after the other, *)
(* with undo, redo and one bare pushHistory() anywhere in between.         *)

----------------------------------------------------------------------------
(* App: the keyboard shortcuts of the window while a canvas file is shown *)

KeyboardEvent(key, isMod, shiftKey, inInput) ==
    [key |-> key, isMod |-> isMod, shiftKey |-> shiftKey, inInput |-> inInput]

handleKeyDown(e) ==
    IF (e.shiftKey /\ e.key = "Tab") \/ e.inInput
      THEN NoStoreCall("handleKeyDown")
    ELSE IF e.key \in {"Delete", "Backspace"} THEN deleteSelected
    ELSE IF e.isMod /\ e.key = "z" /\ ~e.shiftKey THEN undo
    ELSE IF e.isMod /\ (e.key = "y" \/ (e.key = "z" /\ e.shiftKey)) THEN redo
    ELSE IF e.isMod /\ e.key = "c" THEN copy
    ELSE IF e.isMod /\ e.key = "v" THEN paste(20, 20)
    ELSE IF e.isMod /\ e.key = "x" THEN cut
    ELSE NoStoreCall("handleKeyDown")

Init ==
    /\ elements = <<>>
    /\ connectors = <<>>
    /\ selectedIds = <<>>
    /\ history = <<>>
    /\ historyIndex = -1
    /\ clipboard = <<>>
    /\ activeTool = "select"
    /\ viewport = INITIAL_VIEWPORT
    /\ canvas = InitialCanvas
    /\ resizing = Undefined
    /\ event = "none"
    /\ lastOp = [op |-> "init", id |-> NoId, cut |-> FALSE, ret |-> NoId]
    /\ pushRun = 0
    /\ undoRun = 0
    /\ phase = "off"
    /\ preUndo = NoModel
    /\ steps = 0

InitHistory ==
    /\ elements = <<>>
    /\ connectors = <<>>
    /\ selectedIds = <<>>
    /\ history = <<>>
    /\ historyIndex = -1
    /\ clipboard = <<>>
    /\ activeTool = "select"
    /\ viewport = INITIAL_VIEWPORT
    /\ canvas = InitialCanvas
    /\ resizing = Undefined
    /\ event = "none"
    /\ lastOp = [op |-> "init", id |-> NoId, cut |-> FALSE, ret |-> NoId]
    /\ pushRun = 0
    /\ undoRun = 0
    /\ phase = "none"
    /\ preUndo = NoModel
    /\ steps = 0

\* a direct call of a store operation: no pointer handler runs
Call(A) == A /\ UNCHANGED pointer /\ event' = "none"

NextHistory ==
    \/ uuidv4 <= MaxHistElements /\ Call(addShape("rectangle", 0, 0)) /\ UNCHANGED steps
    \/ Len(history) = 0 /\ Call(PushHistory) /\ UNCHANGED steps
    \/ Call(undo) /\ UNCHANGED steps
    \/ Call(redo) /\ UNCHANGED steps

SpecHistory == InitHistory /\ [][NextHistory]_vars

----------------------------------------------------------------------------
(* The store driven through its operations from the empty model, for runs  *)
(* of at most MaxSteps operations.  An id argument is the id of a live     *)
(* element or connector, or one id that nothing uses.                      *)

LiveIds == IdsOf(elements) \cup IdsOf(connectors)
IdArgs == LiveIds \cup {uuidv4}
DrawingInputs == {<<[x |-> 10, y |-> 10]>>,
                  <<[x |-> 10, y |-> 10], [x |-> 20, y |-> 15], [x |-> 30, y |-> 10]>>}

AddShape == addShape("rectangle", 0, 0)
AddText == addText(200, 0)
AddDrawing == \E ps \in DrawingInputs : addDrawing(ps)
AddConnector == \E a \in IdArgs, b \in IdArgs : a <= b /\ addConnector(a, b)
AddConnectorWithAnchors == \E a \in IdArgs, b \in IdArgs :
    a >= b /\ addConnectorWithAnchors(a, "bottom", b, "bottom")
SetSelectedIds == \E a \in LiveIds, b \in IdsOf(elements) :
    a <= b /\ setSelectedIds(IF a = b THEN <<a>> ELSE <<a, b>>)
ToggleSelection == \E id \in LiveIds : toggleSelection(id)
DeleteElement == \E id \in IdArgs : deleteElement(id)
MoveElements == \E ids \in {selectedIds, <<1>>}, dx \in Delta :
    moveElements(ids, dx, 0)
ResizeElement == \E id \in IdArgs : resizeElement(id, 10, 80, Given(20), Undefined)
Paste == paste(20, 20)

Step(A) == steps < MaxSteps /\ Call(A) /\ steps' = steps + 1

Next ==
    \/ Step(AddShape) \/ Step(AddText) \/ Step(AddDrawing)
    \/ Step(AddConnector) \/ Step(AddConnectorWithAnchors)
    \/ Step(updateConnectorAnchors)
    \/ Step(SetSelectedIds) \/ Step(clearSelection) \/ Step(ToggleSelection)
    \/ Step(deleteSelected) \/ Step(DeleteElement)
    \/ Step(MoveElements) \/ Step(ResizeElement)
    \/ Step(\E id \in IdArgs : updateElement(id, [x |-> 40, y |-> 40]))
    \/ Step(\E id \in IdArgs : updateConnector(id, [targetAnchor |-> "left"]))
    \/ Step(copy) \/ Step(Paste) \/ Step(cut)
    \/ Step(undo) \/ Step(redo) \/ Step(PushHistory)

Spec == Init /\ [][Next]_vars

----------------------------------------------------------------------------
(* Best anchors: two shapes, added and then resized to drawn sizes, the    *)
(* second one at a drawn position; connectors are added between them,      *)
(* refreshed, and the first shape is moved.                                *)

MaxAnchorSteps == 3

AnchorCoords == {-200, 0, 200}
AnchorSizes == {[width |-> 120, height |-> 80], [width |-> 25, height |-> 20]}

InitAnchors ==
    \E x2 \in AnchorCoords, y2 \in AnchorCoords,
       size1 \in AnchorSizes, size2 \in AnchorSizes :
        LET a == [id |-> 1, type |-> "shape", shapeType |-> "rectangle",
                  x |-> 0, y |-> 0, width |-> 120, height |-> 80, points |-> <<>>]
            b == [id |-> 2, type |-> "shape", shapeType |-> "rectangle",
                  x |-> x2, y |-> y2, width |-> 120, height |-> 80, points |-> <<>>]
        IN  /\ elements = <<[a EXCEPT !.width = size1.width, !.height = size1.height],
                            [b EXCEPT !.width = size2.width, !.height = size2.height]>>
            /\ connectors = <<>>
            /\ selectedIds = <<2>>
            /\ history = <<Snapshot(<<a>>, <<>>), Snapshot(<<a, b>>, <<>>)>>
            /\ historyIndex = 1
            /\ clipboard = <<>>
            /\ activeTool = "select"
            /\ viewport = INITIAL_VIEWPORT
            /\ canvas = InitialCanvas
            /\ resizing = Undefined
            /\ event = "none"
            /\ lastOp = [op |-> "resizeElement", id |-> NoId, cut |-> FALSE, ret |-> NoId]
            /\ pushRun = 0
            /\ undoRun = 0
            /\ phase = "off"
            /\ preUndo = NoModel
            /\ steps = 0

AnchorStep(A) == steps < MaxAnchorSteps /\ Call(A) /\ steps' = steps + 1

NextAnchors ==
    \/ AnchorStep(\E a \in IdsOf(elements), b \in IdsOf(elements) : addConnector(a, b))
    \/ AnchorStep(addConnectorWithAnchors(2, "top", 1, "top"))
    \/ AnchorStep(updateConnectorAnchors)
    \/ AnchorStep(\E dx \in Delta : moveElements(<<1>>, dx, 0))

SpecAnchors == InitAnchors /\ [][NextAnchors]_vars

----------------------------------------------------------------------------
(* The canvas in use: a rectangle, a text and a connector between them     *)
(* have been added (the connector by addConnector or with chosen anchors), *)
(* the new connector or the rectangle is selected; then pointer events,    *)
(* tool choices and direct calls of the store operations follow, at most   *)
(* MaxEvents of them.                                                      *)

MaxEvents == 3

InitCanvas ==
    \E chosen \in BOOLEAN, sel \in {<<3>>, <<1>>} :
        LET a == [id |-> 1, type |-> "shape", shapeType |-> "rectangle",
                  x |-> 0, y |-> 0, width |-> 120, height |-> 80, points |-> <<>>]
            b == [id |-> 2, type |-> "text", shapeType |-> "none",
                  x |-> 200, y |-> 0, width |-> 150, height |-> 40, points |-> <<>>]
            c == IF chosen THEN Connector(3, 1, "bottom", 2, "bottom")
                 ELSE Connector(3, 1, calculateBestAnchors(a, b).sourceAnchor,
                                2, calculateBestAnchors(a, b).targetAnchor)
        IN  /\ elements = <<a, b>>
            /\ connectors = <<c>>
            /\ selectedIds = sel
            /\ history = <<Snapshot(<<a>>, <<>>), Snapshot(<<a, b>>, <<>>),
                           Snapshot(<<a, b>>, <<c>>)>>
            /\ historyIndex = 2
            /\ clipboard = <<>>
            /\ activeTool = "select"
            /\ viewport = INITIAL_VIEWPORT
            /\ canvas = InitialCanvas
            /\ resizing = Undefined
            /\ event = "none"
            /\ lastOp = [op |-> IF sel = <<3>> THEN "addConnector" ELSE "setSelectedIds",
                         id |-> NoId, cut |-> FALSE,
                         ret |-> IF sel = <<3>> THEN 3 ELSE NoId]
            /\ pushRun = 0
            /\ undoRun = 0
            /\ phase = "off"
            /\ preUndo = NoModel
            /\ steps = 0

\* positions on the screen: in the rectangle, in the text, on the line from the
\* right of the rectangle to the left of the text, and on empty canvas
ScreenPoints == {[x |-> 10, y |-> 10], [x |-> 210, y |-> 10],
                 [x |-> 160, y |-> 30], [x |-> 400, y |-> 300]}

MouseEvent(point, button, shiftKey, metaKey) ==
    [x |-> point.x, y |-> point.y, button |-> button, shiftKey |-> shiftKey,
     metaKey |-> metaKey, inside |-> TRUE]

MouseDowns ==
    {MouseEvent(p, 0, FALSE, FALSE) : p \in ScreenPoints}
    \cup {MouseEvent([x |-> 210, y |-> 10], 0, TRUE, FALSE),
          MouseEvent([x |-> 400, y |-> 300], 0, TRUE, FALSE),
          MouseEvent([x |-> 400, y |-> 300], 0, FALSE, TRUE),
          MouseEvent([x |-> 400, y |-> 300], 1, FALSE, FALSE),
          MouseEvent([x |-> 400, y |-> 300], 2, FALSE, FALSE)}

MouseMoves == {MouseEvent(p, 0, FALSE, FALSE) : p \in ScreenPoints}

MouseUps ==
    {MouseEvent(p, 0, FALSE, FALSE) : p \in ScreenPoints}
    \cup {MouseEvent([x |-> 210, y |-> 10], 0, TRUE, FALSE)}

MouseLeave == [x |-> 0, y |-> 0, button |-> 0, shiftKey |-> FALSE, metaKey |-> FALSE,
               inside |-> FALSE]

AnchorInputs == {"right", "bottom"}
HandleInputs == {"nw", "e", "s"}

Event(A) == steps < MaxEvents /\ A /\ steps' = steps + 1

SetActiveTool ==
    \E tool \in ToolType :
        /\ setActiveTool(tool)
        /\ NoStoreCall("setActiveTool")
        /\ UNCHANGED <<viewport, canvas, resizing>>
        /\ event' = "setActiveTool"

HandleMouseDown == \E e \in MouseDowns : handleMouseDown(e)
HandleMouseMove == \E e \in MouseMoves : handleMouseMove(e)
HandleMouseUp == \E e \in MouseUps : handleMouseUp(e)
OnMouseLeave == handleMouseUp(MouseLeave)
HandleAnchorMouseDown ==
    \E id \in IdsOf(elements), anchor \in AnchorInputs : handleAnchorMouseDown(id, anchor)
HandleAnchorMouseUp ==
    \E id \in IdsOf(elements), anchor \in AnchorInputs : handleAnchorMouseUp(id, anchor)
HandlesMouseDown == \E position \in HandleInputs : handlesMouseDown(position)
HandlesMouseMove == \E e \in MouseMoves : handlesMouseMove(e)

CanvasCall(A) == steps < MaxEvents /\ Call(A) /\ steps' = steps + 1

NextCanvas ==
    \/ Event(SetActiveTool)
    \/ Event(HandleMouseDown) \/ Event(HandleMouseMove) \/ Event(HandleMouseUp)
    \/ Event(OnMouseLeave)
    \/ Event(HandleAnchorMouseDown) \/ Event(HandleAnchorMouseUp)
    \/ Event(HandlesMouseDown) \/ Event(HandlesMouseMove) \/ Event(handlesMouseUp)
    \/ CanvasCall(AddShape) \/ CanvasCall(AddText) \/ CanvasCall(AddDrawing)
    \/ CanvasCall(AddConnector) \/ CanvasCall(AddConnectorWithAnchors)
    \/ CanvasCall(updateConnectorAnchors)
    \/ CanvasCall(SetSelectedIds) \/ CanvasCall(clearSelection)
    \/ CanvasCall(ToggleSelection)
    \/ CanvasCall(deleteSelected) \/ CanvasCall(DeleteElement)
    \/ CanvasCall(MoveElements) \/ CanvasCall(ResizeElement)
    \/ CanvasCall(copy) \/ CanvasCall(Paste) \/ CanvasCall(cut)
    \/ CanvasCall(undo) \/ CanvasCall(redo) \/ CanvasCall(PushHistory)

SpecCanvas == InitCanvas /\ [][NextCanvas]_vars

----------------------------------------------------------------------------
(* Resizing: one element has been added (a rectangle, a text, or the       *)
(* freehand drawing of (10,10), (20,15), (30,10)) and is the selection;    *)
(* its resize handles are pressed, dragged and released, at most           *)
(* MaxResizeSteps events in all.                                           *)

MaxResizeSteps == 4

HandlePosition == {"nw", "n", "ne", "e", "se", "s", "sw", "w"}

ResizedElements ==
    {[id |-> 1, type |-> "shape", shapeType |-> "rectangle",
      x |-> 0, y |-> 0, width |-> 120, height |-> 80, points |-> <<>>],
     [id |-> 1, type |-> "text", shapeType |-> "none",
      x |-> 200, y |-> 0, width |-> 150, height |-> 40, points |-> <<>>],
     [id |-> 1, type |-> "drawing", shapeType |-> "none",
      x |-> 10, y |-> 10, width |-> 20, height |-> 5,
      points |-> <<[x |-> 0, y |-> 0], [x |-> 10, y |-> 5], [x |-> 20, y |-> 0]>>]}

InitResize ==
    \E a \in ResizedElements :
        /\ elements = <<a>>
        /\ connectors = <<>>
        /\ selectedIds = <<1>>
        /\ history = <<Snapshot(<<a>>, <<>>)>>
        /\ historyIndex = 0
        /\ clipboard = <<>>
        /\ activeTool = "select"
        /\ viewport = INITIAL_VIEWPORT
        /\ canvas = InitialCanvas
        /\ resizing = Undefined
        /\ event = "none"
        /\ lastOp = [op |-> IF a.type = "shape" THEN "addShape"
                            ELSE IF a.type = "text" THEN "addText" ELSE "addDrawing",
                     id |-> NoId, cut |-> FALSE, ret |-> 1]
        /\ pushRun = 0
        /\ undoRun = 0
        /\ phase = "off"
        /\ preUndo = NoModel
        /\ steps = 0

\* where the mouse is dragged to: left of, on, and right of the element, with the
\* positions that ask for a width or height of exactly 20 and of 19
ResizeMoves ==
    {MouseEvent([x |-> mx, y |-> my], 0, FALSE, FALSE) :
        mx \in {-100, 0, 100, 101, 300}, my \in {-100, 0, 60, 61, 300}}

\* one step of a specification that takes at most bound steps
Within(bound, A) == steps < bound /\ A /\ steps' = steps + 1

NextResize ==
    \/ Within(MaxResizeSteps, \E position \in HandlePosition : handlesMouseDown(position))
    \/ Within(MaxResizeSteps, \E e \in ResizeMoves : handlesMouseMove(e))
    \/ Within(MaxResizeSteps, handlesMouseUp)

SpecResize == InitResize /\ [][NextResize]_vars

----------------------------------------------------------------------------
(* Marquee selection: a diagram with elements at (0,0,50,50) and           *)
(* (100,100,50,50) and a connector between their top anchors has been      *)
(* loaded, a selection has been set and the view panned by (20, 20); then  *)
(* the mouse is pressed, moved and released on the canvas with the select  *)
(* tool, at most MaxMarqueeSteps events in all.                            *)

MaxMarqueeSteps == 4

InitMarquee ==
    \E sel \in {<<>>, <<2>>, <<3>>} :
        /\ elements = <<[id |-> 1, type |-> "shape", shapeType |-> "rectangle",
                         x |-> 0, y |-> 0, width |-> 50, height |-> 50, points |-> <<>>],
                        [id |-> 2, type |-> "shape", shapeType |-> "rectangle",
                         x |-> 100, y |-> 100, width |-> 50, height |-> 50,
                         points |-> <<>>]>>
        /\ connectors = <<Connector(3, 1, "top", 2, "top")>>
        /\ selectedIds = sel
        /\ history = <<>>
        /\ historyIndex = -1
        /\ clipboard = <<>>
        /\ activeTool = "select"
        /\ viewport = [panX |-> Whole(20), panY |-> Whole(20), zoom |-> Whole(1)]
        /\ canvas = InitialCanvas
        /\ resizing = Undefined
        /\ event = "none"
        /\ lastOp = [op |-> "setSelectedIds", id |-> NoId, cut |-> FALSE, ret |-> NoId]
        /\ pushRun = 0
        /\ undoRun = 0
        /\ phase = "off"
        /\ preUndo = NoModel
        /\ steps = 0

\* positions on the screen: the canvas points (-10,-10), (60,60) and (160,160) on
\* empty canvas, and (10,10) inside the first element
MarqueePoints == {[x |-> 10, y |-> 10], [x |-> 80, y |-> 80],
                  [x |-> 180, y |-> 180], [x |-> 30, y |-> 30]}

\* the releases of the mouse button, with and without the shift key
MarqueeUps == {MouseEvent([x |-> 80, y |-> 80], 0, shiftKey, FALSE) : shiftKey \in BOOLEAN}

NextMarquee ==
    \/ Within(MaxMarqueeSteps,
           \E p \in MarqueePoints, button \in {0, 1, 2}, shiftKey \in BOOLEAN :
               handleMouseDown(MouseEvent(p, button, shiftKey, FALSE)))
    \/ Within(MaxMarqueeSteps,
           \E p \in MarqueePoints : handleMouseMove(MouseEvent(p, 0, FALSE, FALSE)))
    \/ Within(MaxMarqueeSteps, \E e \in MarqueeUps : handleMouseUp(e))
    \/ Within(MaxMarqueeSteps, OnMouseLeave)

SpecMarquee == InitMarquee /\ [][NextMarquee]_vars

----------------------------------------------------------------------------
(* Freehand drawings: with the freehand tool chosen on the empty model,    *)
(* the mouse is pressed, moved and released over the points of the stroke  *)
(* (10,10), (20,15), (30,10), and addDrawing() is called directly with     *)
(* paths of up to two points; at most MaxDrawingEvents events in all.      *)

MaxDrawingEvents == 4

InitDrawing ==
    /\ elements = <<>>
    /\ connectors = <<>>
    /\ selectedIds = <<>>
    /\ history = <<>>
    /\ historyIndex = -1
    /\ clipboard = <<>>
    /\ activeTool = "freehand"
    /\ viewport = INITIAL_VIEWPORT
    /\ canvas = InitialCanvas
    /\ resizing = Undefined
    /\ event = "setActiveTool"
    /\ lastOp = [op |-> "setActiveTool", id |-> NoId, cut |-> FALSE, ret |-> NoId]
    /\ pushRun = 0
    /\ undoRun = 0
    /\ phase = "off"
    /\ preUndo = NoModel
    /\ steps = 0

DrawnPoints == {[x |-> 10, y |-> 10], [x |-> 20, y |-> 15], [x |-> 30, y |-> 10]}

ShortPaths == UNION {[1..n -> DrawnPoints] : n \in 0..2}

NextDrawing ==
    \/ Within(MaxDrawingEvents,
           \E p \in DrawnPoints : handleMouseDown(MouseEvent(p, 0, FALSE, FALSE)))
    \/ Within(MaxDrawingEvents,
           \E p \in DrawnPoints : handleMouseMove(MouseEvent(p, 0, FALSE, FALSE)))
    \/ Within(MaxDrawingEvents,
           \E p \in DrawnPoints : handleMouseUp(MouseEvent(p, 0, FALSE, FALSE)))
    \/ Within(MaxDrawingEvents, \E points \in ShortPaths : Call(addDrawing(points)))

SpecDrawing == InitDrawing /\ [][NextDrawing]_vars

----------------------------------------------------------------------------
(* The viewport alone: pan, zoomTo, the wheel and resetViewport from the   *)
(* initial viewport.                                                       *)

MaxViewportSteps == 3

InitViewport ==
    /\ elements = <<>>
    /\ connectors = <<>>
    /\ selectedIds = <<>>
    /\ history = <<>>
    /\ historyIndex = -1
    /\ clipboard = <<>>
    /\ activeTool = "select"
    /\ viewport = INITIAL_VIEWPORT
    /\ canvas = InitialCanvas
    /\ resizing = Undefined
    /\ event = "none"
    /\ lastOp = [op |-> "none", id |-> NoId, cut |-> FALSE, ret |-> NoId]
    /\ pushRun = 0
    /\ undoRun = 0
    /\ phase = "off"
    /\ preUndo = NoModel
    /\ steps = 0

\* positions of the mouse relative to the container
ZoomCenters == {[x |-> 0, y |-> 0], [x |-> 100, y |-> 50], [x |-> 640, y |-> 360]}

\* zoom levels asked of zoomTo: zero, negative, beyond both bounds and inside them
ZoomTargets == {Whole(0), Whole(-3), [n |-> 1, d |-> 20], [n |-> 1, d |-> 2],
                Whole(3), Whole(1000000)}

\* Canvas.handleWheel: the container is always mounted when the event arrives
handleWheel(e) ==
    LET centerX == e.x
        centerY == e.y
        delta == IF e.deltaY > 0 THEN [n |-> 9, d |-> 10] ELSE [n |-> 11, d |-> 10]
        newZoom == Times(viewport.zoom, delta)
    IN  /\ zoomTo(newZoom, centerX, centerY)
        /\ NoStoreCall("handleWheel")
        /\ UNCHANGED <<activeTool, canvas, resizing>>
        /\ event' = "handleWheel"

\* a call of an operation of useCanvasStore on the viewport
ViewportCall(op, A) ==
    /\ A
    /\ NoStoreCall(op)
    /\ UNCHANGED <<activeTool, canvas, resizing>>
    /\ event' = "none"

NextViewport ==
    \/ Within(MaxViewportSteps,
           \E d \in {[dx |-> 30, dy |-> -20], [dx |-> -7, dy |-> 5]} :
               ViewportCall("pan", pan(d.dx, d.dy)))
    \/ Within(MaxViewportSteps,
           \E newZoom \in ZoomTargets, c \in ZoomCenters :
               ViewportCall("zoomTo", zoomTo(newZoom, c.x, c.y)))
    \/ Within(MaxViewportSteps,
           \E c \in ZoomCenters, deltaY \in {-100, 100} :
               handleWheel([x |-> c.x, y |-> c.y, deltaY |-> deltaY]))
    \/ Within(MaxViewportSteps, ViewportCall("resetViewport", resetViewport))

SpecViewport == InitViewport /\ [][NextViewport]_vars

----------------------------------------------------------------------------
(* Gestures: on a diagram with a rectangle, a text and a connector between *)
(* them, with one of the tools chosen, the mouse is pressed, moved and     *)
(* released on the canvas, on the anchors of the elements and on the       *)
(* resize handles of the selected rectangle, and undo and redo are called; *)
(* at most MaxGestureEvents events and calls in all.  The diagram is as it *)
(* was built, or a drag of the rectangle has been undone since.            *)

MaxGestureEvents == 4

InitGestures ==
    \E tool \in {"select", "freehand", "connector", "rectangle", "text"}, undone \in BOOLEAN :
        LET a == [id |-> 1, type |-> "shape", shapeType |-> "rectangle",
                  x |-> 0, y |-> 0, width |-> 120, height |-> 80, points |-> <<>>]
            b == [id |-> 2, type |-> "text", shapeType |-> "none",
                  x |-> 200, y |-> 0, width |-> 150, height |-> 40, points |-> <<>>]
            c == Connector(3, 1, "bottom", 2, "bottom")
            built == <<Snapshot(<<a>>, <<>>), Snapshot(<<a, b>>, <<>>),
                       Snapshot(<<a, b>>, <<c>>)>>
        IN  /\ elements = <<a, b>>
            /\ connectors = <<c>>
            /\ selectedIds = IF undone THEN <<>> ELSE <<1>>
            /\ history = IF undone
                         THEN Append(built, Snapshot(<<[a EXCEPT !.y = 200], b>>, <<c>>))
                         ELSE built
            /\ historyIndex = 2
            /\ clipboard = <<>>
            /\ activeTool = tool
            /\ viewport = INITIAL_VIEWPORT
            /\ canvas = InitialCanvas
            /\ resizing = Undefined
            /\ event = "setActiveTool"
            /\ lastOp = [op |-> "setActiveTool", id |-> NoId, cut |-> FALSE, ret |-> NoId]
            /\ pushRun = 0
            /\ undoRun = 0
            /\ phase = "off"
            /\ preUndo = NoModel
            /\ steps = 0

\* positions on the screen: in the rectangle, in the text, on the connector
\* and on empty canvas
GesturePoints == {[x |-> 10, y |-> 10], [x |-> 210, y |-> 10], [x |-> 167, y |-> 60],
                  [x |-> 400, y |-> 300]}

NextGestures ==
    \/ Within(MaxGestureEvents,
           \E p \in GesturePoints : handleMouseDown(MouseEvent(p, 0, FALSE, FALSE)))
    \/ Within(MaxGestureEvents,
           \E p \in GesturePoints : handleMouseMove(MouseEvent(p, 0, FALSE, FALSE)))
    \/ Within(MaxGestureEvents,
           \E p \in GesturePoints : handleMouseUp(MouseEvent(p, 0, FALSE, FALSE)))
    \/ Within(MaxGestureEvents, handleMouseUp(MouseLeave))
    \/ Within(MaxGestureEvents,
           \E id \in IdsOf(elements) : handleAnchorMouseDown(id, "right"))
    \/ Within(MaxGestureEvents,
           \E id \in IdsOf(elements) : handleAnchorMouseUp(id, "left"))
    \/ Within(MaxGestureEvents, handlesMouseDown("se"))
    \/ Within(MaxGestureEvents,
           \E p \in GesturePoints : handlesMouseMove(MouseEvent(p, 0, FALSE, FALSE)))
    \/ Within(MaxGestureEvents, handlesMouseUp)
    \/ Within(MaxGestureEvents, Call(undo))
    \/ Within(MaxGestureEvents, Call(redo))

SpecGestures == InitGestures /\ [][NextGestures]_vars

----------------------------------------------------------------------------
(* Specification: loading, resetting and the keyboard on a history that is  *)
(* empty or at its cap.  The store at the cap is the one left by adding a   *)
(* rectangle and dragging it 49 times, then undoing to one of three places  *)
(* and, possibly, selecting the rectangle again.                            *)

MaxLoadSteps == 5

Dragged(i) ==
    [id |-> 1, type |-> "shape", shapeType |-> "rectangle",
     x |-> i - 1, y |-> 0, width |-> 120, height |-> 80, points |-> <<>>]

InitLoad ==
    /\ \/ /\ elements = <<>>
          /\ selectedIds = <<>>
          /\ history = <<>>
          /\ historyIndex = -1
       \/ /\ history = [i \in 1..MAX_HISTORY |-> Snapshot(<<Dragged(i)>>, <<>>)]
          /\ historyIndex \in {0, 24, MAX_HISTORY - 1}
          /\ elements = <<Dragged(historyIndex + 1)>>
          /\ selectedIds \in {<<>>, <<1>>}
    /\ connectors = <<>>
    /\ clipboard = <<>>
    /\ activeTool = "select"
    /\ viewport = INITIAL_VIEWPORT
    /\ canvas = InitialCanvas
    /\ resizing = Undefined
    /\ event = "none"
    /\ lastOp = [op |-> "init", id |-> NoId, cut |-> FALSE, ret |-> NoId]
    /\ pushRun = 0
    /\ undoRun = 0
    /\ phase = "off"
    /\ preUndo = NoModel
    /\ steps = 0

\* the diagrams read from a file: none, one element, two elements and a connector
Diagrams ==
    LET a == [id |-> 7, type |-> "shape", shapeType |-> "ellipse",
              x |-> 0, y |-> 0, width |-> 120, height |-> 80, points |-> <<>>]
        b == [id |-> 8, type |-> "text", shapeType |-> "none",
              x |-> 200, y |-> 0, width |-> 150, height |-> 40, points |-> <<>>]
    IN  {[elements |-> <<>>, connectors |-> <<>>],
         [elements |-> <<a>>, connectors |-> <<>>],
         [elements |-> <<a, b>>, connectors |-> <<Connector(9, 7, "right", 8, "left")>>]}

Keys ==
    {KeyboardEvent("Delete", FALSE, FALSE, FALSE), KeyboardEvent("Backspace", FALSE, FALSE, FALSE),
     KeyboardEvent("Backspace", FALSE, FALSE, TRUE), KeyboardEvent("z", TRUE, FALSE, FALSE),
     KeyboardEvent("z", TRUE, TRUE, FALSE), KeyboardEvent("z", FALSE, FALSE, FALSE)}

NextLoad ==
    \/ Within(MaxLoadSteps, Call(addShape("rectangle", 0, 0)))
    \/ Within(MaxLoadSteps, Call(PushHistory))
    \/ Within(MaxLoadSteps, Call(deleteSelected))
    \/ Within(MaxLoadSteps, Call(undo))
    \/ Within(MaxLoadSteps, Call(redo))
    \/ Within(MaxLoadSteps, Call(reset))
    \/ Within(MaxLoadSteps, \E d \in Diagrams : Call(loadDiagram(d.elements, d.connectors)))
    \/ Within(MaxLoadSteps, \E e \in Keys : /\ handleKeyDown(e)
                                             /\ UNCHANGED pointer
                                             /\ event' = "handleKeyDown")

SpecLoad == InitLoad /\ [][NextLoad]_vars

----------------------------------------------------------------------------
(* Claims about the history *)

PushStep == phase' = "pushed"

\* C1: the history never holds more than MAX_HISTORY entries; a push onto the
\* tail of a full history drops the oldest entry, keeps the others in order and
\* leaves historyIndex on the new last entry; after MAX_HISTORY or more
\* consecutive pushes of growing diagrams the history is exactly the MAX_HISTORY
\* most recent snapshots, in push order.
C1_HistoryCap ==
    [][/\ Len(history') <= MAX_HISTORY
       /\ (PushStep /\ AtFullTail) =>
             /\ history' = Append(Tail(history), Snapshot(elements', connectors'))
             /\ historyIndex' = MAX_HISTORY - 1
       /\ pushRun' >= MAX_HISTORY =>
             /\ Len(history') = MAX_HISTORY
             /\ historyIndex' = MAX_HISTORY - 1
             /\ \A j \in 1..MAX_HISTORY :
                   /\ history'[j].elements =
                        SubSeq(elements', 1, Len(elements') - (MAX_HISTORY - j))
                   /\ history'[j].connectors = connectors'
      ]_vars

C1_Witness == pushRun = MaxHistElements /\ Len(history) = MAX_HISTORY

\* C2: undo() at historyIndex <= 0 and redo() at the tail change nothing of the
\* store; 50 consecutive undo() calls from the tail of a full history end on the
\* oldest retained snapshot, and the next undo() changes nothing.
C2_BoundaryNoOp ==
    [][/\ (lastOp'.op = "undo" /\ historyIndex <= 0) => UNCHANGED store
       /\ (lastOp'.op = "redo" /\ historyIndex >= Len(history) - 1) => UNCHANGED store
       /\ undoRun' >= MAX_HISTORY =>
             /\ historyIndex' = 0
             /\ elements' = history'[1].elements
             /\ connectors' = history'[1].connectors
             /\ history' = history
      ]_vars

C2_Witness == undoRun = MAX_HISTORY + 1 /\ historyIndex = 0 /\ Len(history) = MAX_HISTORY

\* C3: pushHistory() keeps the entries 0..historyIndex, appends the snapshot,
\* drops the oldest entry when that makes more than MAX_HISTORY, and leaves
\* historyIndex on the last entry; a redo() right after it changes nothing.
C3_PushDropsRedoTail ==
    [][/\ PushStep =>
             LET kept == SubSeq(history, 1, historyIndex + 1)
                 full == Append(kept, Snapshot(elements', connectors'))
             IN  /\ history' = IF Len(kept) = MAX_HISTORY THEN Tail(full) ELSE full
                 /\ historyIndex' = Len(history') - 1
       /\ (phase = "pushed" /\ lastOp'.op = "redo") => UNCHANGED store
      ]_vars

C3_Witness == lastOp.cut /\ lastOp.op = "addShape" /\ Len(history) >= 2

\* C4: after pushHistory(); undo(); redo() the elements and connectors are what
\* they were just before the undo().
C4_PushUndoRedo ==
    phase = "redone" => (elements = preUndo.elements /\ connectors = preUndo.connectors)

C4_Witness ==
    /\ phase = "redone"
    /\ Len(history) = MAX_HISTORY
    /\ historyIndex = MAX_HISTORY - 1
    /\ elements # <<>>

----------------------------------------------------------------------------
(* Claims about the store *)

EntryAt(i) == history[i + 1]

\* C5: away from the history boundaries undo() lowers and redo() raises
\* historyIndex by exactly one, elements and connectors become the snapshot at
\* the new index, the selection becomes empty and the history list is unchanged.
C5_UndoRedoStep ==
    [][/\ (lastOp'.op = "undo" /\ historyIndex > 0) =>
             /\ historyIndex' = historyIndex - 1
             /\ elements' = EntryAt(historyIndex - 1).elements
             /\ connectors' = EntryAt(historyIndex - 1).connectors
             /\ selectedIds' = <<>>
             /\ history' = history
       /\ (lastOp'.op = "redo" /\ historyIndex < Len(history) - 1) =>
             /\ historyIndex' = historyIndex + 1
             /\ elements' = EntryAt(historyIndex + 1).elements
             /\ connectors' = EntryAt(historyIndex + 1).connectors
             /\ selectedIds' = <<>>
             /\ history' = history
      ]_vars

C5_Witness ==
    /\ lastOp.op = "redo"
    /\ historyIndex >= 1
    /\ connectors # <<>>
    /\ connectors = EntryAt(historyIndex).connectors

\* C6: every connector's sourceId and targetId is the id of an element that is
\* in elements.
C6_ConnectorEndpointsLive ==
    \A i \in 1..Len(connectors) :
        /\ connectors[i].sourceId \in IdsOf(elements)
        /\ connectors[i].targetId \in IdsOf(elements)

C6_Witness ==
    /\ lastOp.op = "undo"
    /\ connectors # <<>>
    /\ Len(history) >= 3
    /\ EntryAt(historyIndex + 1).connectors = <<>>

\* C7: deleteElement(E) of a live element E removes E and exactly the connectors
\* that have E as source or target; deleteSelected() removes exactly the selected
\* elements, the selected connectors and the connectors with a selected element
\* as source or target.  What stays keeps its order and its fields.
C7_CascadeExact ==
    [][/\ (lastOp'.op = "deleteElement" /\ lastOp'.id \in IdsOf(elements)) =>
             LET E == lastOp'.id
             IN  /\ elements' = SelectSeq(elements, LAMBDA el : el.id # E)
                 /\ connectors' = SelectSeq(connectors,
                        LAMBDA c : ~(c.sourceId = E \/ c.targetId = E))
       /\ lastOp'.op = "deleteSelected" =>
             LET sel == {selectedIds[i] : i \in 1..Len(selectedIds)}
                 selEls == sel \cap IdsOf(elements)
                 gone == (sel \cap IdsOf(connectors))
                         \cup {connectors[i].id : i \in
                                 {j \in 1..Len(connectors) :
                                     connectors[j].sourceId \in selEls
                                     \/ connectors[j].targetId \in selEls}}
             IN  /\ elements' = SelectSeq(elements, LAMBDA el : el.id \notin selEls)
                 /\ connectors' = SelectSeq(connectors, LAMBDA c : c.id \notin gone)
      ]_vars

C7_Witness ==
    /\ lastOp.op = "deleteElement"
    /\ historyIndex >= 1
    /\ lastOp.id \in IdsOf(EntryAt(historyIndex - 1).elements)
    /\ Len(elements) = Len(EntryAt(historyIndex - 1).elements) - 1
    /\ Len(connectors) = Len(EntryAt(historyIndex - 1).connectors) - 1

\* C8: every id in selectedIds is the id of an element or connector of the model.
C8_SelectionLive ==
    \A i \in 1..Len(selectedIds) : selectedIds[i] \in LiveIds

\* the anchors of a connector that is there before and after the step differ
AnchorsChange ==
    \E i \in 1..Len(connectors), j \in 1..Len(connectors') :
        /\ connectors'[j].id = connectors[i].id
        /\ \/ connectors'[j].sourceAnchor # connectors[i].sourceAnchor
           \/ connectors'[j].targetAnchor # connectors[i].targetAnchor

\* C9: moveElements() leaves the connectors list as it is; the anchors of an
\* existing connector change in no step of a pointer handler and in no store
\* operation but updateConnectorAnchors() (and undo() and redo(), which put a
\* stored snapshot back); no pointer handler calls updateConnectorAnchors().
C9_AnchorsSticky ==
    [][/\ lastOp'.op = "moveElements" => connectors' = connectors
       /\ AnchorsChange =>
             /\ event' = "none"
             /\ lastOp'.op \in {"updateConnectorAnchors", "undo", "redo"}
       /\ lastOp'.op = "updateConnectorAnchors" => event' = "none"
      ]_vars

\* a drag has moved an end of a connector to where other anchors are the best
C9_Witness ==
    /\ event = "handleMouseMove"
    /\ lastOp.op = "moveElements"
    /\ canvas.isDragging
    /\ elements # EntryAt(historyIndex).elements
    /\ connectors = EntryAt(historyIndex).connectors
    /\ \E i \in 1..Len(connectors) :
          LET c == connectors[i]
              best == calculateBestAnchors(find(elements, c.sourceId),
                                           find(elements, c.targetId))
              was == calculateBestAnchors(find(EntryAt(historyIndex).elements, c.sourceId),
                                          find(EntryAt(historyIndex).elements, c.targetId))
          IN  /\ c.sourceAnchor = was.sourceAnchor
              /\ c.targetAnchor = was.targetAnchor
              /\ best # was

----------------------------------------------------------------------------
(* Claims about the anchors *)

AnchorIndex(sPos, tPos) ==
    LET at(p) == CHOOSE i \in 1..4 : positions[i] = p
    IN  4 * (at(sPos) - 1) + (at(tPos) - 1)

AnchorDistance2(source, target, sPos, tPos) ==
    LET sPoint == getAnchorPoints(source)[sPos]
        tPoint == getAnchorPoints(target)[tPos]
    IN  hypot2(tPoint.x - sPoint.x, tPoint.y - sPoint.y)

\* (sPos, tPos) is at the minimum distance, and the first such pair
FirstMinimum(source, target, sPos, tPos) ==
    \A s \in AnchorPosition, t \in AnchorPosition :
        LET d == AnchorDistance2(source, target, sPos, tPos)
            e == AnchorDistance2(source, target, s, t)
        IN  d < e \/ (d = e /\ AnchorIndex(sPos, tPos) <= AnchorIndex(s, t))

BestAnchored(connector) ==
    FirstMinimum(find(elements', connector.sourceId), find(elements', connector.targetId),
                 connector.sourceAnchor, connector.targetAnchor)

\* C10: the connector that addConnector(source, target) adds for two live
\* elements, and every connector after updateConnectorAnchors(), has the anchor
\* pair whose anchor points are at the minimum distance over the 16 pairs, and
\* of the pairs at that distance the first one in the order (top, right, bottom,
\* left) of the source by (top, right, bottom, left) of the target.
C10_BestAnchors ==
    [][/\ (lastOp'.op = "addConnector" /\ Len(connectors') = Len(connectors) + 1) =>
             BestAnchored(connectors'[Len(connectors')])
       /\ lastOp'.op = "updateConnectorAnchors" =>
             /\ Len(connectors') = Len(connectors)
             /\ \A i \in 1..Len(connectors) :
                   /\ connectors'[i].id = connectors[i].id
                   /\ connectors'[i].sourceId = connectors[i].sourceId
                   /\ connectors'[i].targetId = connectors[i].targetId
                   /\ BestAnchored(connectors'[i])
      ]_vars

\* an added connector whose minimum is shared by a later pair
C10_Witness ==
    /\ lastOp.op = "addConnector"
    /\ connectors # <<>>
    /\ LET c == connectors[Len(connectors)]
           source == find(elements, c.sourceId)
           target == find(elements, c.targetId)
       IN  /\ c.sourceId # c.targetId
           /\ \E s \in AnchorPosition, t \in AnchorPosition :
                 /\ AnchorIndex(s, t) > AnchorIndex(c.sourceAnchor, c.targetAnchor)
                 /\ AnchorDistance2(source, target, s, t)
                      = AnchorDistance2(source, target, c.sourceAnchor, c.targetAnchor)

----------------------------------------------------------------------------
(* Claims about the operations that add elements and connectors *)

\* the step appends one element with a new id at (x, y), selects exactly it and
\* returns its id
AddsElementAt(x, y) ==
    /\ Len(elements') = Len(elements) + 1
    /\ SubSeq(elements', 1, Len(elements)) = elements
    /\ connectors' = connectors
    /\ LET new == elements'[Len(elements')]
       IN  /\ new.id \notin LiveIds
           /\ new.id # NoId
           /\ new.x = x
           /\ new.y = y
           /\ selectedIds' = <<new.id>>
           /\ lastOp'.ret = new.id

\* the step appends to the history entries 0..historyIndex one snapshot of the
\* model it leaves (the oldest entry is dropped beyond MAX_HISTORY)
PushesOneEntry ==
    /\ Len(history') = Min(historyIndex + 2, MAX_HISTORY)
    /\ historyIndex' = Len(history') - 1
    /\ history'[Len(history')] = [elements |-> elements', connectors |-> connectors']
    /\ \A i \in 1..(Len(history') - 1) :
          history'[i] = history[i + (historyIndex + 2 - Len(history'))]

AddCoords == {0, 200}

\* C11 (as stated): addShape(type, x, y) and addText(x, y) append exactly one new
\* element at the given top-left, select exactly the new id, return that id, and
\* leave history and historyIndex as they were.
C11_AddLeavesHistory ==
    [][lastOp'.op \in {"addShape", "addText"} =>
          \A x \in AddCoords, y \in AddCoords :
              /\ addShape("rectangle", x, y) =>
                    AddsElementAt(x, y) /\ UNCHANGED <<history, historyIndex>>
              /\ addText(x, y) =>
                    AddsElementAt(x, y) /\ UNCHANGED <<history, historyIndex>>
      ]_vars

\* C11 (amended): addShape(type, x, y) and addText(x, y) append exactly one new
\* element at the given top-left, select exactly the new id, return that id, and
\* push one history entry themselves: the snapshot of the model with the new
\* element, after the entries 0..historyIndex.
C11_AddPushesHistory ==
    [][lastOp'.op \in {"addShape", "addText"} =>
          \A x \in AddCoords, y \in AddCoords :
              /\ addShape("rectangle", x, y) => AddsElementAt(x, y) /\ PushesOneEntry
              /\ addText(x, y) => AddsElementAt(x, y) /\ PushesOneEntry
      ]_vars

\* a text was added after a shape, each with its own history entry
C11_Witness ==
    /\ lastOp.op = "addText"
    /\ Len(elements) = 2
    /\ elements[1].type = "shape"
    /\ lastOp.ret = elements[2].id
    /\ selectedIds = <<elements[2].id>>
    /\ Len(history) = 2
    /\ historyIndex = 1

----------------------------------------------------------------------------
(* Claims about ids that are not in the model *)

ModelAndHistory == <<elements, connectors, selectedIds, history, historyIndex>>

\* C12: updateElement, updateConnector, moveElements, resizeElement and
\* deleteElement called with an id that is not in the model leave elements,
\* connectors, selectedIds, history and historyIndex unchanged.
C12_UnknownIdNoOp ==
    [][lastOp'.op \in {"updateElement", "updateConnector", "moveElements",
                        "resizeElement", "deleteElement"} =>
          \A id \in 1..uuidv4 :
              id \notin LiveIds =>
                /\ updateElement(id, [x |-> 40, y |-> 40]) => UNCHANGED ModelAndHistory
                /\ updateConnector(id, [targetAnchor |-> "left"]) => UNCHANGED ModelAndHistory
                /\ (\E dx \in Delta : moveElements(<<id>>, dx, 0)) => UNCHANGED ModelAndHistory
                /\ resizeElement(id, 10, 80, Given(20), Undefined) => UNCHANGED ModelAndHistory
                /\ deleteElement(id) => UNCHANGED ModelAndHistory
      ]_vars

\* the step appends one connector with a new id from element a to element b,
\* selects exactly it and leaves the elements alone
AddsConnectorBetween(a, b) ==
    /\ Len(connectors') = Len(connectors) + 1
    /\ SubSeq(connectors', 1, Len(connectors)) = connectors
    /\ elements' = elements
    /\ LET new == connectors'[Len(connectors')]
       IN  /\ new.id \notin LiveIds
           /\ new.id # NoId
           /\ new.sourceId = a
           /\ new.targetId = b
           /\ new.sourceAnchor \in AnchorPosition
           /\ new.targetAnchor \in AnchorPosition
           /\ selectedIds' = <<new.id>>

RejectedWithEmptyId == UNCHANGED ModelAndHistory /\ lastOp'.ret = NoId

AnchorArgs == {"top", "bottom"}

\* C13: addConnector(sourceId, targetId) and addConnectorWithAnchors(sourceId, a,
\* targetId, b) return the empty id and change nothing of the model, selection
\* and history when sourceId or targetId is not the id of a live element; when
\* both are, they append exactly one connector with those ends (and the anchors
\* a, b given) and select exactly the new connector.
C13_ConnectorNeedsLiveEnds ==
    [][/\ lastOp'.op = "addConnector" =>
            \A s \in 1..uuidv4, t \in 1..uuidv4 :
                addConnector(s, t) =>
                    IF s \in IdsOf(elements) /\ t \in IdsOf(elements)
                    THEN AddsConnectorBetween(s, t)
                    ELSE RejectedWithEmptyId
       /\ lastOp'.op = "addConnectorWithAnchors" =>
            \A s \in 1..uuidv4, t \in 1..uuidv4, a \in AnchorArgs, b \in AnchorArgs :
                addConnectorWithAnchors(s, a, t, b) =>
                    IF s \in IdsOf(elements) /\ t \in IdsOf(elements)
                    THEN /\ AddsConnectorBetween(s, t)
                         /\ connectors'[Len(connectors')].sourceAnchor = a
                         /\ connectors'[Len(connectors')].targetAnchor = b
                    ELSE RejectedWithEmptyId
      ]_vars

\* a connector exists, and the last call was rejected although an element is live
C13_Witness ==
    /\ lastOp.op = "addConnectorWithAnchors"
    /\ lastOp.ret = NoId
    /\ Len(elements) >= 1
    /\ Len(connectors) >= 1
    /\ connectors[1].sourceAnchor = "bottom"

----------------------------------------------------------------------------
(* Claims about resizing and drawings *)

\* the width and height a handle drag to the mouse position (mx, my) asks for
RequestedWidth(r, mx) ==
    LET dx == Floor(DividedBy(Whole(mx - r.startMouseX), r.zoom))
    IN  IF r.position \in {"nw", "w", "sw"} THEN r.initialWidth - dx
        ELSE IF r.position \in {"ne", "e", "se"} THEN r.initialWidth + dx
        ELSE r.initialWidth

RequestedHeight(r, my) ==
    LET dy == Floor(DividedBy(Whole(my - r.startMouseY), r.zoom))
    IN  IF r.position \in {"nw", "n", "ne"} THEN r.initialHeight - dy
        ELSE IF r.position \in {"sw", "s", "se"} THEN r.initialHeight + dy
        ELSE r.initialHeight

\* C14: a drag of any of the 8 resize handles of a shape or text, by any
\* displacement, leaves width >= 20 and height >= 20, exactly 20 where the size
\* asked for is below 20; with a handle on the left the right edge x + width, and
\* with a handle on the top the bottom edge y + height, stay where they were at
\* mouse-down.
C14_ResizeFloor ==
    [][(event' = "handlesMouseMove" /\ resizing # Undefined) =>
          \A e \in ResizeMoves :
              handlesMouseMove(e) =>
                LET r == resizing[1]
                    el == find(elements', r.elementId)
                IN  (r.elementId \in IdsOf(elements') /\ el.type # "drawing") =>
                      /\ el.width >= 20
                      /\ el.height >= 20
                      /\ RequestedWidth(r, e.x) < 20 => el.width = 20
                      /\ RequestedHeight(r, e.y) < 20 => el.height = 20
                      /\ r.position \in {"nw", "w", "sw"} =>
                            el.x + el.width = r.initialX + r.initialWidth
                      /\ r.position \in {"nw", "n", "ne"} =>
                            el.y + el.height = r.initialY + r.initialHeight
      ]_vars

\* the nw handle of the rectangle was dragged past its opposite corner: both
\* axes are at the floor and the corner at (120, 80) has not moved
C14_Witness ==
    /\ event = "handlesMouseMove"
    /\ resizing # Undefined
    /\ resizing[1].position = "nw"
    /\ resizing[1].initialWidth = 120
    /\ Len(elements) = 1
    /\ elements[1].type = "shape"
    /\ elements[1].width = 20
    /\ elements[1].height = 20
    /\ elements[1].x = 100
    /\ elements[1].y = 60

\* the width and height addDrawing gives to a drawing with these stored points
\* (the extent of the points is the same relative to the origin of the box)
CreationWidth(el) ==
    LET xs == {el.points[i].x : i \in 1..Len(el.points)}
    IN  MaxOf({MaxOf(xs) - MinOf(xs), 1})

CreationHeight(el) ==
    LET ys == {el.points[i].y : i \in 1..Len(el.points)}
    IN  MaxOf({MaxOf(ys) - MinOf(ys), 1})

\* C15: the width and height of a live drawing are those addDrawing computed
\* from its points when it was created, max(maxX - minX, 1) and
\* max(maxY - minY, 1), whatever store operation or pointer gesture came after.
C15_DrawingSizeFrozen ==
    \A i \in 1..Len(elements) :
        elements[i].type = "drawing" =>
            /\ elements[i].width = CreationWidth(elements[i])
            /\ elements[i].height = CreationHeight(elements[i])

----------------------------------------------------------------------------
(* Claims about pointer gestures *)

\* C16: a gesture without displacement, that is a mouse-down on an element or
\* connector with the select tool, or on a resize handle, followed at once by the
\* mouse-up at the same place, leaves history and historyIndex unchanged.
C16_ClickLeavesHistory ==
    [][/\ ( /\ event = "handleMouseDown"
            /\ activeTool = "select"
            /\ canvas.isDragging
            /\ \E e \in MouseUps :
                  /\ canvas.dragStart = Given(Pixel(screenToCanvas(e.x, e.y)))
                  /\ handleMouseUp(e) )
          => UNCHANGED <<history, historyIndex>>
       /\ (event = "handlesMouseDown" /\ handlesMouseUp)
          => UNCHANGED <<history, historyIndex>>
      ]_vars

\* the ids of the elements whose bounding box overlaps the rectangle between the
\* corner where the marquee started and the opposite corner
MarqueeHits(box) ==
    LET left == Min(box.x, box.x + box.width)
        right == MaxOf({box.x, box.x + box.width})
        top == Min(box.y, box.y + box.height)
        bottom == MaxOf({box.y, box.y + box.height})
    IN  {elements[i].id : i \in {j \in 1..Len(elements) :
            /\ elements[j].x < right
            /\ elements[j].x + elements[j].width > left
            /\ elements[j].y < bottom
            /\ elements[j].y + elements[j].height > top}}

SetOf(s) == {s[i] : i \in 1..Len(s)}

MarqueeEnds ==
    /\ ~canvas.isDrawing
    /\ ~canvas.isPanning
    /\ ~canvas.isDragging
    /\ canvas.selectionBox # Undefined

\* C17: the mouse-up that ends a marquee sets the selection to exactly the
\* elements whose bounding box overlaps the marquee rectangle, in whichever
\* direction it was dragged: in place of the previous selection, or added to it
\* when shift is held; it selects no connector.  With elements at (0,0,50,50) and
\* (100,100,50,50) the marquee from (-10,-10) to (60,60) selects the first only,
\* the one from (-10,-10) to (160,160) both.
C17_MarqueeSelects ==
    [][MarqueeEnds =>
          \A e \in MarqueeUps \cup {MouseLeave} :
              handleMouseUp(e) =>
                LET box == canvas.selectionBox[1]
                    hits == MarqueeHits(box)
                IN  /\ SetOf(selectedIds') =
                          IF e.shiftKey THEN SetOf(selectedIds) \cup hits ELSE hits
                    /\ Len(selectedIds') = Cardinality(SetOf(selectedIds'))
                    /\ hits \cap IdsOf(connectors) = {}
                    /\ ~e.shiftKey => SetOf(selectedIds') \cap IdsOf(connectors) = {}
                    /\ (~e.shiftKey /\ box = [x |-> -10, y |-> -10, width |-> 70, height |-> 70])
                          => selectedIds' = <<1>>
                    /\ (~e.shiftKey /\ box = [x |-> -10, y |-> -10, width |-> 170, height |-> 170])
                          => selectedIds' = <<1, 2>>
                    /\ UNCHANGED <<elements, connectors, history, historyIndex>>
      ]_vars

\* with the connector selected, a shift-marquee over the first element has added
\* that element to the selection
C17_Witness ==
    /\ event = "handleMouseUp"
    /\ lastOp.op = "setSelectedIds"
    /\ selectedIds = <<3, 1>>
    /\ canvas.selectionBox = Undefined
    /\ canvas.dragStart = Undefined

\* v is the least, or the greatest, of the numbers s[1], ..., s[n]
IsLeast(v, s) == (\E i \in 1..Len(s) : s[i] = v) /\ (\A i \in 1..Len(s) : v <= s[i])
IsGreatest(v, s) == (\E i \in 1..Len(s) : s[i] = v) /\ (\A i \in 1..Len(s) : v >= s[i])

\* the step appends one drawing made of the given points, as the claim has it
AddsDrawingOf(points) ==
    LET new == elements'[Len(elements')]
        xs == [i \in 1..Len(points) |-> points[i].x]
        ys == [i \in 1..Len(points) |-> points[i].y]
    IN  /\ Len(elements') = Len(elements) + 1
        /\ SubSeq(elements', 1, Len(elements)) = elements
        /\ connectors' = connectors
        /\ new.type = "drawing"
        /\ new.id \notin LiveIds
        /\ IsLeast(new.x, xs)
        /\ IsLeast(new.y, ys)
        /\ \E maxX \in 0..100 :
              /\ IsGreatest(maxX, xs)
              /\ new.width = IF maxX - new.x > 1 THEN maxX - new.x ELSE 1
        /\ \E maxY \in 0..100 :
              /\ IsGreatest(maxY, ys)
              /\ new.height = IF maxY - new.y > 1 THEN maxY - new.y ELSE 1
        /\ Len(new.points) = Len(points)
        /\ \A i \in 1..Len(points) :
              /\ new.points[i].x = points[i].x - new.x
              /\ new.points[i].y = points[i].y - new.y
        /\ points = <<[x |-> 10, y |-> 10], [x |-> 20, y |-> 15], [x |-> 30, y |-> 10]>> =>
              /\ new.x = 10 /\ new.y = 10
              /\ new.width = 20 /\ new.height = 5
              /\ new.points = <<[x |-> 0, y |-> 0], [x |-> 10, y |-> 5], [x |-> 20, y |-> 0]>>

\* C18: addDrawing(points) with fewer than 2 points returns the empty id and
\* changes nothing; with 2 or more it appends one drawing with x, y the least x
\* and y of the points, width max(maxX - minX, 1), height max(maxY - minY, 1),
\* and as stored points the given points in order, each moved by (-minX, -minY).
\* For [(10,10),(20,15),(30,10)]: x = 10, y = 10, width = 20, height = 5 and
\* points [(0,0),(10,5),(20,0)].  The mouse-up of a stroke of 2 or more points
\* calls it with the points of the stroke.
C18_FreehandCommit ==
    [][/\ (lastOp'.op = "addDrawing" /\ event' = "none") =>
            \A points \in ShortPaths :
                addDrawing(points) =>
                    IF Len(points) < 2
                    THEN UNCHANGED ModelAndHistory /\ lastOp'.ret = NoId
                    ELSE AddsDrawingOf(points)
       /\ (lastOp'.op = "addDrawing" /\ event' = "handleMouseUp") =>
            /\ Len(canvas.drawingPoints) >= 2
            /\ AddsDrawingOf(canvas.drawingPoints)
      ]_vars

\* the stroke of the example has been drawn with the mouse and committed
C18_Witness ==
    /\ lastOp.op = "addDrawing"
    /\ event = "handleMouseUp"
    /\ Len(elements) = 1
    /\ elements[1].x = 10
    /\ elements[1].y = 10
    /\ elements[1].width = 20
    /\ elements[1].height = 5
    /\ elements[1].points = <<[x |-> 0, y |-> 0], [x |-> 10, y |-> 5], [x |-> 20, y |-> 0]>>
    /\ lastOp.ret = elements[1].id
    /\ selectedIds = <<elements[1].id>>

----------------------------------------------------------------------------
(* Claims about the viewport *)

\* C19: from the initial viewport, after any sequence of pan, zoomTo with any
\* target (zero, negative and very large ones among them), wheel events and
\* resetViewport, the zoom is at least 0.1 and at most 5.
C19_ZoomBounds ==
    /\ ~Less(viewport.zoom, [n |-> 1, d |-> 10])
    /\ ~Less(Whole(5), viewport.zoom)

\* a wheel event asking for 1.1 times the greatest zoom, away from the origin
C19_Witness ==
    /\ lastOp.op = "handleWheel"
    /\ viewport.zoom = Whole(5)
    /\ viewport.panX # Whole(0)

\* the zooms a zoomTo call of the next step can have been asked for
ZoomRequests ==
    ZoomTargets \cup {Times(viewport.zoom, [n |-> 9, d |-> 10]),
                      Times(viewport.zoom, [n |-> 11, d |-> 10])}

\* C20: zoomTo(z2, cx, cy) leaves the point of the diagram that screenToCanvas
\* gives for (cx, cy) where it was, also when z2 is clamped.
C20_ZoomAboutPoint ==
    [][lastOp'.op \in {"zoomTo", "handleWheel"} =>
          \A z2 \in ZoomRequests, c \in ZoomCenters :
              zoomTo(z2, c.x, c.y) =>
                  ScreenToCanvasOf(viewport', c.x, c.y) = screenToCanvas(c.x, c.y)]_vars

\* zoomTo(1000000, 100, 50) after pan(30, -20): the zoom is clamped to 5 and the
\* point (70, 70) of the diagram is still under (100, 50)
C20_Witness ==
    /\ lastOp.op = "zoomTo"
    /\ viewport = [panX |-> Whole(-250), panY |-> Whole(-300), zoom |-> Whole(5)]
    /\ screenToCanvas(100, 50) = [x |-> Whole(70), y |-> Whole(70)]

----------------------------------------------------------------------------
(* Claims about the clipboard *)

\* the elements the step appended to the list
Clones == SubSeq(elements', Len(elements) + 1, Len(elements'))

\* C21: paste(offsetX, offsetY) with a non-empty clipboard appends one clone per
\* clipboard element, each with a fresh id (none of the model, of the clipboard
\* or of another clone) and with x, y shifted by the offset, selects exactly the
\* clones, leaves the existing elements and all connectors unchanged and pushes
\* exactly one history entry; with an empty clipboard it changes nothing.
\* copy() puts exactly the selected elements, never a connector, in the clipboard.
C21_PasteClones ==
    [][/\ lastOp'.op = "paste" /\ clipboard = <<>> =>
              UNCHANGED <<elements, connectors, selectedIds, history, historyIndex,
                          clipboard>>
       /\ lastOp'.op = "paste" /\ clipboard # <<>> =>
              /\ Len(elements') = Len(elements) + Len(clipboard)
              /\ SubSeq(elements', 1, Len(elements)) = elements
              /\ connectors' = connectors
              /\ clipboard' = clipboard
              /\ \A i \in 1..Len(clipboard) :
                    /\ Clones[i].id \notin LiveIds \cup IdsOf(clipboard) \cup {NoId}
                    /\ \A j \in 1..Len(clipboard) : j # i => Clones[j].id # Clones[i].id
                    /\ Clones[i].x = clipboard[i].x + 20
                    /\ Clones[i].y = clipboard[i].y + 20
                    /\ [Clones[i] EXCEPT !.id = 0, !.x = 0, !.y = 0]
                           = [clipboard[i] EXCEPT !.id = 0, !.x = 0, !.y = 0]
              /\ selectedIds' = [i \in 1..Len(clipboard) |-> Clones[i].id]
              /\ PushesOneEntry
       /\ lastOp'.op = "copy" =>
              /\ \A i \in 1..Len(clipboard') :
                    /\ \E k \in 1..Len(elements) : elements[k] = clipboard'[i]
                    /\ includes(selectedIds, clipboard'[i].id)
                    /\ clipboard'[i].id \notin IdsOf(connectors)
              /\ IdsOf(clipboard') = IdsOf(elements) \cap SetOf(selectedIds)
              /\ Len(clipboard') = Cardinality(IdsOf(clipboard'))
      ]_vars

\* two copied elements were pasted: two clones, both selected
C21_Witness ==
    /\ lastOp.op = "paste"
    /\ Len(elements) = 4
    /\ Len(clipboard) = 2
    /\ selectedIds = <<elements[3].id, elements[4].id>>
    /\ historyIndex = 2

----------------------------------------------------------------------------
(* Claims about the gestures of the pointer controller *)

\* the gesture states that are active: panning, marquee selection, dragging
\* elements, freehand drawing, connector drawing
ActiveGestures ==
    {g \in {"panning", "marquee", "dragging", "freehand", "connector"} :
        \/ g = "panning" /\ canvas.isPanning
        \/ g = "marquee" /\ canvas.selectionBox # Undefined
        \/ g = "dragging" /\ canvas.isDragging
        \/ g = "freehand" /\ canvas.isDrawing
        \/ g = "connector" /\ canvas.isDrawingConnector}

\* C22: whatever mouse-down, mouse-move, mouse-up and mouse-leave events arrive,
\* with any button and modifier, at most one of the gesture states panning,
\* marquee selection, dragging elements, freehand drawing and connector drawing
\* is active.
C22_OneGesture == Cardinality(ActiveGestures) <= 1

\* the mouse button is released on the canvas, or the mouse leaves it
MouseUpStep == event' \in {"handleMouseUp", "onMouseLeave"}

\* C23: a completed element drag, resize-handle drag, freehand stroke of at least
\* 2 points, connector commit, or shape or text creation appends exactly one
\* history entry between its mouse-down and the end of its mouse-up, however many
\* mouse-move frames there are: the frames (with their moveElements and
\* resizeElement calls) and the presses that start a gesture append none, the
\* press that creates a shape or text appends one and its release none, and the
\* release that completes one of the other gestures appends one.
C23_OneEntryPerGesture ==
    [][/\ event' \in {"handleMouseMove", "handlesMouseMove", "handlesMouseDown",
                      "handleAnchorMouseDown"} =>
              UNCHANGED <<history, historyIndex>>
       /\ event' = "handleMouseDown" =>
              IF Len(elements') > Len(elements)
              THEN PushesOneEntry
              ELSE UNCHANGED <<history, historyIndex>>
       /\ MouseUpStep /\ ActiveGestures = {} => UNCHANGED <<history, historyIndex>>
       /\ MouseUpStep /\ ActiveGestures = {"dragging"} => PushesOneEntry
       /\ MouseUpStep /\ ActiveGestures = {"freehand"} /\ Len(canvas.drawingPoints) >= 2 =>
              PushesOneEntry /\ Len(elements') = Len(elements) + 1
       /\ (MouseUpStep \/ event' = "handleAnchorMouseUp") /\ connectors' # connectors =>
              PushesOneEntry /\ Len(connectors') = Len(connectors) + 1
       /\ event' = "handlesMouseUp" => PushesOneEntry
      ]_vars

\* the rectangle was pressed, dragged over two frames and released: one more
\* history entry than the three before the gesture
C23_Witness ==
    /\ event = "handleMouseUp"
    /\ lastOp.op = "pushHistory"
    /\ steps = 4
    /\ elements[1].x = 390
    /\ Len(history) = 4
    /\ historyIndex = 3
    /\ history[4].elements = elements

\* the elements with the point inside their bounding box, widened by the 8 units
\* within which a drawing is hit
ElementsNear(p) ==
    {elements[i].id : i \in {j \in 1..Len(elements) :
        /\ elements[j].x - 8 <= p.x /\ p.x <= elements[j].x + elements[j].width + 8
        /\ elements[j].y - 8 <= p.y /\ p.y <= elements[j].y + elements[j].height + 8}}

Model == <<elements, connectors, history, historyIndex>>

\* C24: a connector gesture released over empty space or over its own source
\* element, and a freehand gesture that ends with fewer than 2 points, leave
\* elements, connectors, history and historyIndex as they were at mouse-down:
\* neither the press that starts the gesture, nor its frames, nor the release
\* (or the mouse leaving the canvas) changes them.
C24_CancelLeavesModel ==
    [][/\ event' \in {"handleMouseDown", "handleAnchorMouseDown"}
          /\ ActiveGestures = {}
          /\ (ActiveGestures' = {"connector"} \/ ActiveGestures' = {"freehand"})
          => UNCHANGED Model
       /\ event' = "handleMouseMove"
          /\ (ActiveGestures = {"connector"} \/ ActiveGestures = {"freehand"})
          => UNCHANGED Model /\ ActiveGestures' = ActiveGestures
       /\ MouseUpStep /\ ActiveGestures = {"freehand"} /\ Len(canvas.drawingPoints) < 2
          => UNCHANGED Model /\ ActiveGestures' = {}
       /\ MouseUpStep /\ ActiveGestures = {"connector"}
          => /\ handleMouseUp(MouseLeave) => UNCHANGED Model /\ ActiveGestures' = {}
             /\ \A p \in GesturePoints :
                   /\ handleMouseUp(MouseEvent(p, 0, FALSE, FALSE))
                   /\ ElementsNear(p) \subseteq {canvas.connectorSource[1].elementId}
                   => UNCHANGED Model /\ ActiveGestures' = {}
       /\ event' = "handleAnchorMouseUp" /\ ActiveGestures = {"connector"}
          => (handleAnchorMouseUp(canvas.connectorSource[1].elementId, "left")
                => UNCHANGED Model /\ ActiveGestures' = {})
      ]_vars

\* with the freehand tool the mouse was pressed (which clears the selection) and
\* released at once: one point, no drawing, the model of before the gesture
C24_Witness ==
    /\ event = "handleMouseUp"
    /\ lastOp.op = "handleMouseUp"
    /\ steps = 2
    /\ activeTool = "freehand"
    /\ selectedIds = <<>>
    /\ ActiveGestures = {}
    /\ Len(elements) = 2
    /\ Len(connectors) = 1
    /\ Len(history) = 3
    /\ historyIndex = 2

----------------------------------------------------------------------------
(* Claims about the resize being computed from the press *)

\* the element as it was when the handle was pressed: nothing but the drag
\* changes it, so it is the element of the snapshot pushed last
AtMouseDown == history[historyIndex + 1].elements[1]

\* the geometry after a drag of the handle by (tx, ty) in all, from the edges of
\* the element at the press: a dragged left or top edge follows the mouse up to
\* 20 units before the opposite edge, which stays; otherwise the right or bottom
\* edge is at least 20 units after the left or top one, dragged or not
Resized(position, start, tx, ty) ==
    LET left == start.x
        right == start.x + start.width
        top == start.y
        bottom == start.y + start.height
        newLeft == IF position \in {"nw", "w", "sw"} THEN Min(left + tx, right - 20) ELSE left
        newRight == IF position \in {"nw", "w", "sw"} THEN right
                    ELSE MaxOf({right + (IF position \in {"ne", "e", "se"} THEN tx ELSE 0),
                                left + 20})
        newTop == IF position \in {"nw", "n", "ne"} THEN Min(top + ty, bottom - 20) ELSE top
        newBottom == IF position \in {"nw", "n", "ne"} THEN bottom
                     ELSE MaxOf({bottom + (IF position \in {"sw", "s", "se"} THEN ty ELSE 0),
                                 top + 20})
    IN  [x |-> newLeft, y |-> newTop, width |-> newRight - newLeft,
         height |-> newBottom - newTop]

\* C25: during a resize-handle drag the element's x, y, width and height after
\* each mouse-move are a function of the handle, the element's geometry at
\* mouse-down and the total displacement of the mouse since mouse-down alone,
\* whatever positions the drag passed through before.
C25_ResizeFromMouseDown ==
    [][event' = "handlesMouseMove" =>
          \A e \in ResizeMoves :
              handlesMouseMove(e) =>
                LET position == resizing[1].position
                    pressed == HandlePoint(AtMouseDown, position)
                IN  Rect(elements'[1]) =
                        Resized(position, AtMouseDown, e.x - pressed.x, e.y - pressed.y)
      ]_vars

\* the east handle of the rectangle was dragged to the far left, where the width
\* stops at 20, and then to x = 300: the width is 300, as in a direct drag
C25_Witness ==
    /\ event = "handlesMouseMove"
    /\ steps = 3
    /\ resizing # Undefined
    /\ resizing[1].position = "e"
    /\ elements[1].type = "shape"
    /\ Rect(elements[1]) = [x |-> 0, y |-> 0, width |-> 300, height |-> 80]

----------------------------------------------------------------------------
(* Claims about the history across load and reset *)

\* C26: in every reachable state historyIndex is -1 exactly when the history is
\* empty, and otherwise lies between 0 and history.length - 1, whatever pushes
\* (at the cap or not), undo, redo, loadDiagram and reset came before.
C26_IndexInRange ==
    /\ historyIndex = -1 <=> history = <<>>
    /\ history # <<>> => 0 <= historyIndex /\ historyIndex <= Len(history) - 1

\* a diagram was loaded over a store whose history was not empty
C26_Witness ==
    /\ lastOp.op = "loadDiagram"
    /\ steps = 2
    /\ Len(elements) = 2
    /\ history = <<>>
    /\ historyIndex = -1

\* C27: loadDiagram and reset leave the history empty, and undo() does nothing
\* while the history holds a single entry: the one change committed after a
\* load stays in place when undone.
C27_FirstChangeStays ==
    [][/\ lastOp'.op \in {"loadDiagram", "reset"} =>
            /\ history' = <<>>
            /\ historyIndex' = -1
            /\ lastOp'.op = "loadDiagram" =>
                  \E d \in Diagrams : elements' = d.elements /\ connectors' = d.connectors
       /\ lastOp'.op = "undo" /\ Len(history) = 1 =>
            /\ UNCHANGED <<elements, connectors, history, historyIndex>>
            /\ history[1] = [elements |-> elements, connectors |-> connectors]
      ]_vars

\* the one-element diagram was loaded, a rectangle added, and undo called
C27_Witness ==
    /\ lastOp.op = "undo"
    /\ steps = 3
    /\ Len(history) = 1
    /\ Len(elements) = 2
    /\ elements[1].id = 7
    /\ elements[2].shapeType = "rectangle"

\* C28: deleteSelected() appends one history entry in every case; with nothing
\* selected it leaves elements and connectors as they are, and the entry is a
\* snapshot of that model put after entry historyIndex, the redo tail dropped.
C28_DeleteAlwaysPushes ==
    [][lastOp'.op = "deleteSelected" =>
          /\ PushesOneEntry
          /\ selectedIds = <<>> =>
                /\ UNCHANGED <<elements, connectors>>
                /\ history'[historyIndex' + 1] =
                       [elements |-> elements, connectors |-> connectors]
      ]_vars

\* Delete was pressed with nothing selected after 25 undos of 50 entries: the
\* rectangle is still there and the history has 26 entries
C28_Witness ==
    /\ event = "handleKeyDown"
    /\ lastOp.op = "deleteSelected"
    /\ lastOp.cut
    /\ elements = <<Dragged(25)>>
    /\ Len(history) = 26
    /\ historyIndex = 25

----------------------------------------------------------------------------
(* Claims about a click while redo is available *)

\* C29: with the select tool and redo available, a mouse-down on an element or
\* a connector followed at once by the mouse-up ends the drag state with a
\* pushHistory call that drops the redo tail: historyIndex is at the tail
\* afterwards and a redo() that follows changes nothing.
C29_ClickDiscardsRedo ==
    [][/\ ( /\ event = "handleMouseDown"
            /\ activeTool = "select"
            /\ ActiveGestures = {"dragging"}
            /\ hitTest(canvas.dragStart[1]) # NoId
            /\ historyIndex < Len(history) - 1
            /\ MouseUpStep )
          => /\ lastOp'.op = "pushHistory"
             /\ ActiveGestures' = {}
             /\ UNCHANGED <<elements, connectors>>
             /\ Len(history') = historyIndex + 2
             /\ historyIndex' = Len(history') - 1
             /\ \A i \in 1..(historyIndex + 1) : history'[i] = history[i]
       /\ ( /\ event \in {"handleMouseUp", "onMouseLeave"}
            /\ lastOp.op = "pushHistory"
            /\ lastOp'.op = "redo" )
          => UNCHANGED store
      ]_vars

\* the connector was clicked after an undo: the push of the release cut the tail
C29_Witness ==
    /\ event = "handleMouseUp"
    /\ steps = 2
    /\ lastOp.op = "pushHistory"
    /\ lastOp.cut
    /\ selectedIds = <<3>>
    /\ Len(history) = 4
    /\ historyIndex = 3
    /\ history[4] = history[3]

----------------------------------------------------------------------------
(* Claims about the ends of the connectors drawn with the pointer *)

\* C30: every connector created by a handler of the pointer controller (a
\* release on an anchor or over the body of an element) joins two different
\* elements, its ends being ids of elements and never of connectors; the store
\* operation addConnectorWithAnchors, called directly with the same element as
\* source and target, creates the connector all the same.
C30_NoSelfConnector ==
    [][/\ event' # "none" /\ connectors' # connectors =>
            LET created == connectors'[Len(connectors')]
            IN  /\ connectors' = Append(connectors, created)
                /\ created.sourceId # created.targetId
                /\ created.sourceId \in IdsOf(elements)
                /\ created.targetId \in IdsOf(elements)
                /\ event' \in {"handleMouseUp", "handleAnchorMouseUp"}
       /\ event' = "none" /\ lastOp'.op = "addConnectorWithAnchors" =>
            \A s \in IdsOf(elements) :
                addConnectorWithAnchors(s, "bottom", s, "bottom") =>
                    /\ Len(connectors') = Len(connectors) + 1
                    /\ connectors'[Len(connectors')].sourceId = s
                    /\ connectors'[Len(connectors')].targetId = s
      ]_vars

\* a connector drawn from an anchor of the rectangle was released over the text
C30_Witness ==
    /\ event = "handleMouseUp"
    /\ lastOp.op = "addConnectorWithAnchors"
    /\ steps = 2
    /\ Len(connectors) = 2
    /\ connectors[2].sourceId = 1
    /\ connectors[2].targetId = 2

====
